---------------------------- MODULE Spec2Model ----------------------------
(***************************************************************************)
(* A model of reporter/pdf_reporter.py (class PDFReporter): the adaptive   *)
(* report composition of the image screener.                               *)
(*                                                                         *)
(* The "story" that the reporter hands to reportlab is modelled as a       *)
(* sequence of blocks (Paragraph, Table, Spacer, PageBreak).  The text of  *)
(* a Paragraph and the cells of a Table are the strings the code builds;   *)
(* paragraph styles, table styles and column widths belong to the renderer *)
(* and are left out; the non-ASCII glyphs of the literals are dropped (the *)
(* bullet is written *, the multiplication sign x).                        *)
(*                                                                         *)
(* Python values of a detail record are modelled by Value records, Python  *)
(* dicts by sequences of [k, v] items in insertion order, floats by        *)
(* integers counting millionths.                                           *)
(***************************************************************************)
EXTENDS Integers, Sequences, FiniteSets, TLC

VARIABLES
    pc,      \* "idle": no call in progress; "returned": a call has returned
    op,      \* the method that was called last
    args,    \* the arguments of that call
    story,   \* the block sequence an export_* call handed to doc.build
    ret,     \* the value a helper method returned
    input,   \* the caller's result object as the export_* call left it
    thread,  \* per thread of a shared reporter: its call and how far it is
    frames   \* the story lists of the calls in progress, by their owner

vars == <<pc, op, args, story, ret, input, thread, frames>>

---------------------------------------------------------------------------
(* Bounds of the model *)

\* largest batch that is composed
MaxImages == 10
\* longest signal sequence of an image
MaxSignals == 2
\* most top-level fields of a generated detail record
MaxFields == 2

---------------------------------------------------------------------------
(* Sequences *)

RECURSIVE Flatten(_)
\* the concatenation of a sequence of sequences
Flatten(ss) == IF ss = <<>> THEN <<>> ELSE Head(ss) \o Flatten(Tail(ss))

RECURSIVE JoinStr(_, _)
\* sep.join(strs)
JoinStr(strs, sep) ==
    IF strs = <<>> THEN ""
    ELSE IF Len(strs) = 1 THEN strs[1]
    ELSE strs[1] \o sep \o JoinStr(Tail(strs), sep)

\* all sequences over S of length at most n
SeqsUpTo(S, n) == UNION {[1..m -> S] : m \in 0..n}

\* the sequences of SeqsUpTo(S, n) without a repeated element
DistinctSeqsUpTo(S, n) ==
    {s \in SeqsUpTo(S, n) : \A i, j \in 1..Len(s) : i # j => s[i] # s[j]}

---------------------------------------------------------------------------
(* Numbers and their formatting.  A float x is the integer x * Unit. *)

Abs(n) == IF n < 0 THEN 0 - n ELSE n

RECURSIVE Pow10(_)
Pow10(d) == IF d = 0 THEN 1 ELSE 10 * Pow10(d - 1)

\* the integer that stands for the float 1.0
Unit == Pow10(6)

RECURSIVE ZeroPad(_, _)
\* the decimal digits of n >= 0, left-padded with zeros to width w
ZeroPad(n, w) ==
    IF w <= 1 THEN ToString(n)
    ELSE IF n < Pow10(w - 1) THEN "0" \o ZeroPad(n, w - 1)
    ELSE ToString(n)

\* str(n) of an int
IntStr(n) == IF n < 0 THEN "-" \o ToString(0 - n) ELSE ToString(n)

\* f"{x:.df}" of the float x = n / Unit, for 1 <= d <= 6.  The inputs of the
\* model hold no decimal tie (a digit 5 followed by zeros after place d),
\* where the result would depend on the binary expansion of x.
FmtFixed(n, d) ==
    LET scale == Pow10(6 - d)
        q     == (Abs(n) + (scale \div 2)) \div scale
    IN  (IF n < 0 THEN "-" ELSE "")
          \o ToString(q \div Pow10(d)) \o "." \o ZeroPad(q % Pow10(d), d)

Fmt3(n) == FmtFixed(n, 3)
Fmt2(n) == FmtFixed(n, 2)

RECURSIVE StripZeros(_, _)
\* the w-digit fraction f without its trailing zeros (one digit is kept)
StripZeros(f, w) ==
    IF w > 1 /\ f % 10 = 0 THEN StripZeros(f \div 10, w - 1) ELSE ZeroPad(f, w)

\* repr(x) = str(x) of the float x = n / Unit: the shortest decimal that reads
\* back as x, in exponent notation below 1e-04
FloatRepr(n) ==
    LET a == Abs(n)
        sign == IF n < 0 THEN "-" ELSE ""
    IN  IF a # 0 /\ a < 10
          THEN sign \o ToString(a) \o "e-06"
        ELSE IF a # 0 /\ a < 100
          THEN sign \o ToString(a \div 10)
                 \o (IF a % 10 = 0 THEN "" ELSE "." \o ToString(a % 10)) \o "e-05"
        ELSE sign \o ToString(a \div Unit) \o "." \o StripZeros(a % Unit, 6)

---------------------------------------------------------------------------
(* Python values *)

VFloat(n) == [t |-> "float", n |-> n, s |-> "", items |-> <<>>]
VInt(n)   == [t |-> "int",   n |-> n, s |-> "", items |-> <<>>]
VStr(s)   == [t |-> "str",   n |-> 0, s |-> s,  items |-> <<>>]
VNone     == [t |-> "none",  n |-> 0, s |-> "", items |-> <<>>]
\* a dict: items is a sequence of [k |-> key, v |-> value], keys distinct
VDict(items) == [t |-> "dict", n |-> 0, s |-> "", items |-> items]
\* a list: items is a sequence of values
VList(items) == [t |-> "list", n |-> 0, s |-> "", items |-> items]

Item(k, v) == [k |-> k, v |-> v]

\* isinstance(v, dict), isinstance(v, list), isinstance(v, float)
IsDict(v)  == v.t = "dict"
IsList(v)  == v.t = "list"
IsFloat(v) == v.t = "float"

\* bool(v)
Truthy(v) ==
    CASE v.t = "float" -> v.n # 0
      [] v.t = "int"   -> v.n # 0
      [] v.t = "str"   -> v.s # ""
      [] v.t = "none"  -> FALSE
      [] OTHER         -> v.items # <<>>

\* key in d, for the items d of a dict
HasKey(d, k) == \E i \in 1..Len(d) : d[i].k = k

\* d[key], for a key of d
Lookup(d, k) == d[CHOOSE i \in 1..Len(d) : d[i].k = k].v

\* d.get(key, default)
\* GetOr with the fault of the default being dropped: d.get(k)
GetOrNone(d, k, default) == IF HasKey(d, k) THEN Lookup(d, k) ELSE VNone

GetOr(d, k, default) == IF HasKey(d, k) THEN Lookup(d, k) ELSE default

RECURSIVE Repr(_)
\* repr(v): a string is quoted, a container shows the repr of its elements
Repr(v) ==
    CASE v.t = "float" -> FloatRepr(v.n)
      [] v.t = "int"   -> IntStr(v.n)
      [] v.t = "str"   -> "'" \o v.s \o "'"
      [] v.t = "none"  -> "None"
      [] v.t = "dict"  ->
            "{" \o JoinStr([i \in 1..Len(v.items) |->
                     "'" \o v.items[i].k \o "': " \o Repr(v.items[i].v)], ", ") \o "}"
      [] OTHER ->
            "[" \o JoinStr([i \in 1..Len(v.items) |-> Repr(v.items[i])], ", ") \o "]"

\* str(v)
Str(v) == IF v.t = "str" THEN v.s ELSE Repr(v)

---------------------------------------------------------------------------
(* The blocks of a story *)

Paragraph(text) == [kind |-> "Paragraph", text |-> text, data |-> <<>>, h |-> 0]
\* data is the sequence of the table's rows, each a sequence of cell texts
Table(data)     == [kind |-> "Table", text |-> "", data |-> data, h |-> 0]
Spacer(h)       == [kind |-> "Spacer", text |-> "", data |-> <<>>, h |-> h]
PageBreak       == [kind |-> "PageBreak", text |-> "", data |-> <<>>, h |-> 0]

\* the class attributes COLOR_*, by their hex values
COLOR_SUCCESS == "#27AE60"
COLOR_WARNING == "#F39C12"
COLOR_DANGER  == "#E74C3C"
COLOR_INFO    == "#3498DB"
COLOR_MEDIUM  == "#F1C40F"

\* the cell of a table's header row
HeaderCell(h) == "<font color='white'><b>" \o h \o "</b></font>"

HeaderRow(hs) == [i \in 1..Len(hs) |-> HeaderCell(hs[i])]

---------------------------------------------------------------------------
(* Status badges and score colours *)

GetStatusHtml(status) ==
    IF status = "REVIEW_REQUIRED"
      THEN "<font color='" \o COLOR_DANGER \o "'><b>REVIEW REQUIRED</b></font>"
    ELSE IF status = "LIKELY_AUTHENTIC"
      THEN "<font color='" \o COLOR_SUCCESS \o "'><b>LIKELY AUTHENTIC</b></font>"
    ELSE "<font color='" \o COLOR_INFO \o "'><b>" \o status \o "</b></font>"

GetSignalStatusHtml(status) ==
    IF status = "flagged"
      THEN "<font color='" \o COLOR_DANGER \o "'><b>FLAGGED</b></font>"
    ELSE IF status = "warning"
      THEN "<font color='" \o COLOR_WARNING \o "'><b>WARNING</b></font>"
    ELSE "<font color='" \o COLOR_SUCCESS \o "'><b>PASSED</b></font>"

\* the thresholds 0.85, 0.70 and 0.50 of the score comparisons
ThresholdCritical == (85 * Unit) \div 100
ThresholdHigh     == (70 * Unit) \div 100
ThresholdMedium   == (50 * Unit) \div 100

GetScoreColor(score) ==
    IF score >= ThresholdCritical THEN COLOR_DANGER
    ELSE IF score >= ThresholdHigh THEN COLOR_WARNING
    ELSE IF score >= ThresholdMedium THEN COLOR_MEDIUM
    ELSE COLOR_SUCCESS

---------------------------------------------------------------------------
(* Header and footer *)

AddWatermarkedHeader(title, timestamp) ==
    << Paragraph("AI Image Screener"),
       Table(<< << title, "Generated: " \o timestamp >> >>),
       Spacer(4) >>

AddFooter ==
    << Spacer(10),
       Table(<< << "<b>CAUTION</b>: Results are indicative and should be verified manually for critical applications. For questions or support, contact: support@aiimagescreener.com" >> >>),
       Spacer(4),
       Paragraph("<i>Document contains security watermark. Unauthorized duplication prohibited.</i>") >>

---------------------------------------------------------------------------
(* The detail schemas and the extraction of detail rows *)

Param(key, label, desc) == [key |-> key, label |-> label, desc |-> desc]

\* MetricOrder with the fault of another order
MetricOrderReversed == <<"color", "texture", "noise", "frequency", "gradient">>

\* the metric types with a schema, in the order of metric_order
MetricOrder == <<"gradient", "frequency", "noise", "texture", "color">>

IsRegistered(metric_key) == \E i \in 1..Len(MetricOrder) : MetricOrder[i] = metric_key

\* metric_parameters.get(metric_key, [])
MetricParameters(metric_key) ==
    CASE metric_key = "gradient" ->
          << Param("eigenvalue_ratio", "Eigenvalue Ratio", "Ratio of eigenvalues indicating gradient alignment"),
             Param("gradient_vectors_sampled", "Vectors Sampled", "Number of gradient vectors analyzed"),
             Param("original_pixels", "Original Pixels", "Total pixels in the image"),
             Param("filtered_vectors", "Filtered Vectors", "Vectors after filtering"),
             Param("threshold", "Threshold", "Detection threshold value") >>
      [] metric_key = "frequency" ->
          << Param("hf_ratio", "HF Ratio", "High-frequency energy ratio"),
             Param("roughness", "Roughness", "Spectral roughness measure"),
             Param("low_freq_energy", "Low Freq Energy", "Low frequency energy"),
             Param("high_freq_energy", "High Freq Energy", "High frequency energy"),
             Param("hf_anomaly", "HF Anomaly", "High-frequency anomaly score"),
             Param("spectral_deviation", "Spectral Deviation", "Deviation from normal spectrum") >>
      [] metric_key = "noise" ->
          << Param("mean_noise", "Mean Noise", "Average noise level"),
             Param("cv", "CV", "Coefficient of variation"),
             Param("patches_total", "Patches Total", "Total patches analyzed"),
             Param("patches_valid", "Patches Valid", "Valid patches for analysis"),
             Param("noise_level_anomaly", "Noise Anomaly", "Noise level anomaly score"),
             Param("reason", "Reason", "Analysis reason or limitation") >>
      [] metric_key = "texture" ->
          << Param("smooth_ratio", "Smooth Ratio", "Ratio of smooth texture patches"),
             Param("contrast_mean", "Contrast Mean", "Average texture contrast"),
             Param("entropy_mean", "Entropy Mean", "Average texture entropy"),
             Param("patches_used", "Patches Used", "Texture patches used in analysis"),
             Param("edge_density_mean", "Edge Density", "Average edge density"),
             Param("contrast_cv", "Contrast CV", "Contrast coefficient of variation") >>
      [] metric_key = "color" ->
          << Param("saturation_stats", "Saturation Stats", "Color saturation statistics"),
             Param("histogram_stats", "Histogram Stats", "Color histogram statistics"),
             Param("hue_stats", "Hue Stats", "Hue distribution statistics") >>
      [] OTHER -> <<>>

\* headers_map.get(metric_key, ['Parameter', 'Value']), as header cells
DetailHeaders(metric_key) ==
    IF IsRegistered(metric_key)
      THEN HeaderRow(<<"Parameter", "Value", "Description">>)
      ELSE HeaderRow(<<"Parameter", "Value">>)

\* NestedRows with the fault of a row for a falsy 'reason' too
NestedRowsKeepAll(items) ==
    [i \in 1..Len(items) |-> << "  " \o items[i].k, Str(items[i].v), "" >>]

\* the rows of a nested mapping: one per key, a falsy 'reason' left out
NestedRows(items) ==
    LET kept == SelectSeq(items, LAMBDA it : it.k # "reason" \/ Truthy(it.v))
    IN  [i \in 1..Len(kept) |-> << "  " \o kept[i].k, Str(kept[i].v), "" >>]

\* every key of a mapping as a row (the loop over sat_stats.items())
StatRows(items) ==
    [i \in 1..Len(items) |-> << "  " \o items[i].k, Str(items[i].v), "" >>]

\* ParamRows with the fault of a row for the nested mapping itself, before
\* the rows of its keys
ParamRowsWithBlob(p, details) ==
    IF HasKey(details, p.key)
      THEN LET value == Lookup(details, p.key)
           IN  IF IsDict(value)
                 THEN << << p.label, Str(value), p.desc >> >> \o NestedRows(value.items)
                 ELSE << << p.label, Str(value), p.desc >> >>
    ELSE <<>>

\* ParamRows with the fault of a placeholder row for a missing field
ParamRowsPadded(p, details) ==
    IF HasKey(details, p.key)
      THEN LET value == Lookup(details, p.key)
           IN  IF IsDict(value)
                 THEN NestedRows(value.items)
                 ELSE << << p.label, Str(value), p.desc >> >>
    ELSE << << p.label, "N/A", p.desc >> >>

\* the rows that one pass of the loop over params appends
ParamRows(p, details) ==
    IF HasKey(details, p.key)
      THEN LET value == Lookup(details, p.key)
           IN  IF IsDict(value)
                 THEN NestedRows(value.items)
                 ELSE << << p.label, Str(value), p.desc >> >>
    ELSE IF p.key = "saturation_stats" /\ HasKey(details, "saturation_stats")
      THEN LET sat_stats == Lookup(details, "saturation_stats")
           IN  IF ~IsDict(sat_stats) THEN <<>>
               ELSE IF HasKey(sat_stats.items, "reason")
                 THEN << << "Saturation Analysis",
                            Str(Lookup(sat_stats.items, "reason")),
                            "Reason for saturation analysis result" >> >>
               ELSE StatRows(sat_stats.items)
    ELSE <<>>

\* the rows of the schema fields params, in their order
RowsOfParams(params, details) ==
    Flatten([i \in 1..Len(params) |-> ParamRows(params[i], details)])

\* _get_metric_details_table(metric_key, details); details are a dict's items
GetMetricDetailsTable(metric_key, details) ==
    [ headers |-> DetailHeaders(metric_key),
      rows    |-> RowsOfParams(MetricParameters(metric_key), details) ]

RECURSIVE Indent(_)
\* "  " * indent
Indent(indent) == IF indent = 0 THEN "" ELSE "  " \o Indent(indent - 1)

RECURSIVE BulletsWithoutHeaders(_, _)
\* FormatDetailsAsBullets with the fault of no header bullet for a mapping
BulletsWithoutHeaders(details, indent) ==
    LET prefix == Indent(indent)
        OfItem(it) ==
            IF IsDict(it.v)
              THEN BulletsWithoutHeaders(it.v.items, indent + 1)
            ELSE IF IsList(it.v)
              THEN << prefix \o "* " \o it.k \o ":" >>
                     \o [j \in 1..Len(it.v.items) |-> prefix \o "  - " \o Str(it.v.items[j])]
            ELSE << prefix \o "* " \o it.k \o ": "
                      \o (IF IsFloat(it.v) THEN Fmt3(it.v.n) ELSE Str(it.v)) >>
    IN  Flatten([i \in 1..Len(details) |-> OfItem(details[i])])

RECURSIVE FormatDetailsAsBullets(_, _)
\* _format_details_as_bullets(details, indent)
FormatDetailsAsBullets(details, indent) ==
    LET prefix == Indent(indent)
        OfItem(it) ==
            IF IsDict(it.v)
              THEN << prefix \o "* " \o it.k \o ":" >>
                     \o FormatDetailsAsBullets(it.v.items, indent + 1)
            ELSE IF IsList(it.v)
              THEN << prefix \o "* " \o it.k \o ":" >>
                     \o [j \in 1..Len(it.v.items) |-> prefix \o "  - " \o Str(it.v.items[j])]
            ELSE << prefix \o "* " \o it.k \o ": "
                      \o (IF IsFloat(it.v) THEN Fmt3(it.v.n) ELSE Str(it.v)) >>
    IN  Flatten([i \in 1..Len(details) |-> OfItem(details[i])])

\* 'sub' in details and isinstance(details[sub], dict) and key in details[sub]
SubRecordHas(details, sub, key) ==
    /\ HasKey(details, sub)
    /\ IsDict(Lookup(details, sub))
    /\ HasKey(Lookup(details, sub).items, key)

\* ExtractColorDetail with the fault of histogram_stats searched first
ExtractColorDetailHistogramFirst(details, key) ==
    IF SubRecordHas(details, "histogram_stats", key)
      THEN Lookup(Lookup(details, "histogram_stats").items, key)
    ELSE IF SubRecordHas(details, "saturation_stats", key)
      THEN Lookup(Lookup(details, "saturation_stats").items, key)
    ELSE IF SubRecordHas(details, "hue_stats", key)
      THEN Lookup(Lookup(details, "hue_stats").items, key)
    ELSE VStr("N/A")

\* _extract_color_detail(details, key)
ExtractColorDetail(details, key) ==
    IF SubRecordHas(details, "saturation_stats", key)
      THEN Lookup(Lookup(details, "saturation_stats").items, key)
    ELSE IF SubRecordHas(details, "histogram_stats", key)
      THEN Lookup(Lookup(details, "histogram_stats").items, key)
    ELSE IF SubRecordHas(details, "hue_stats", key)
      THEN Lookup(Lookup(details, "hue_stats").items, key)
    ELSE VStr("N/A")

\* ExtractColorReason with the fault of histogram_stats being searched too
ExtractColorReasonAnySub(details) == ExtractColorDetail(details, "reason")

\* _extract_color_reason(details)
ExtractColorReason(details) ==
    IF SubRecordHas(details, "saturation_stats", "reason")
      THEN Lookup(Lookup(details, "saturation_stats").items, "reason")
    ELSE IF SubRecordHas(details, "hue_stats", "reason")
      THEN Lookup(Lookup(details, "hue_stats").items, "reason")
    ELSE VStr("")

---------------------------------------------------------------------------
(* AnalysisResult, Signal, MetricResult and BatchAnalysisResult *)

Signal(name, score, status, explanation, metric_type) ==
    [ name |-> name, score |-> score, status |-> status,
      explanation |-> explanation, metric_type |-> metric_type ]

\* confidence is <<>> for None and <<c>> for the float c; details is a dict
\* value or None
MetricResult(score, confidence, details) ==
    [ score |-> score, confidence |-> confidence, details |-> details ]

\* metric_result.details or {}
DetailsOrEmpty(metric_result) ==
    IF Truthy(metric_result.details) THEN metric_result.details.items ELSE <<>>

---------------------------------------------------------------------------
(* The single full-detail layout *)

MetricDisplayName(metric_key) ==
    CASE metric_key = "gradient"  -> "Gradient-Field PCA"
      [] metric_key = "frequency" -> "Frequency Analysis (FFT)"
      [] metric_key = "noise"     -> "Noise Pattern Analysis"
      [] metric_key = "texture"   -> "Texture Statistics"
      [] metric_key = "color"     -> "Color Distribution"
      [] OTHER                    -> metric_key

\* the overview table of "Basic Information"
OverviewData(result) ==
    << << "<b>Filename:</b>", result.filename,
          "<b>Image Size:</b>",
          ToString(result.image_size[1]) \o " x " \o ToString(result.image_size[2]) \o " pixels" >>,
       << "<b>Overall Status:</b>", GetStatusHtml(result.status),
          "<b>Overall Score:</b>",
          "<font color='" \o GetScoreColor(result.overall_score) \o "'><b>"
             \o Fmt3(result.overall_score) \o "</b></font>" >>,
       << "<b>Confidence:</b>", ToString(result.confidence) \o "%",
          "<b>Processing Time:</b>", Fmt3(result.processing_time) \o " seconds" >>,
       << "<b>Analysis Timestamp:</b>", result.timestamp, "", "" >> >>

\* the Confidence cell of a signal row: the confidence of the metric result of
\* the signal's metric type, "N/A" when there is none
SignalConfidence(result, signal) ==
    IF /\ HasKey(result.metric_results, signal.metric_type)
       /\ Lookup(result.metric_results, signal.metric_type).confidence # <<>>
      THEN Fmt3(Lookup(result.metric_results, signal.metric_type).confidence[1])
      ELSE "N/A"

SingleSignalRow(result, signal) ==
    << signal.name,
       "<b>" \o Fmt3(signal.score) \o "</b>",
       GetSignalStatusHtml(signal.status),
       SignalConfidence(result, signal),
       signal.explanation >>

SingleSignalData(result) ==
    << HeaderRow(<<"Metric", "Score", "Status", "Confidence", "Explanation">>) >>
      \o [i \in 1..Len(result.signals) |-> SingleSignalRow(result, result.signals[i])]

\* the summary row of a metric section
MetricSummaryData(metric_result) ==
    << << "<b>Metric Score:</b>", "<b>" \o Fmt3(metric_result.score) \o "</b>",
          "<b>Confidence:</b>",
          IF metric_result.confidence # <<>>
            THEN Fmt3(metric_result.confidence[1]) ELSE "N/A" >> >>

\* MetricDetailBlocks with the fault of the table being chosen by its headers
\* alone, and followed by the bullets when it has no rows
MetricDetailBlocksByHeaders(metric_key, details) ==
    IF details # <<>>
      THEN LET t == GetMetricDetailsTable(metric_key, details)
               bullet_points == IF t.rows = <<>> THEN FormatDetailsAsBullets(details, 0) ELSE <<>>
           IN  << Table(<<t.headers>> \o t.rows), Spacer(6) >>
                 \o [i \in 1..Len(bullet_points) |-> Paragraph(bullet_points[i])]
      ELSE << Paragraph("No detailed forensic data available."), Spacer(4) >>

\* MetricDetailBlocks with the fault of no placeholder for an empty record
MetricDetailBlocksNoPlaceholder(metric_key, details) ==
    IF details # <<>>
      THEN LET t == GetMetricDetailsTable(metric_key, details)
           IN  IF t.headers # <<>> /\ t.rows # <<>>
                 THEN << Table(<<t.headers>> \o t.rows), Spacer(6) >>
                 ELSE LET bullet_points == FormatDetailsAsBullets(details, 0)
                      IN  [i \in 1..Len(bullet_points) |-> Paragraph(bullet_points[i])]
                            \o << Spacer(4) >>
      ELSE << Spacer(4) >>

\* what follows the summary row: the detail table, the bullets or the placeholder
MetricDetailBlocks(metric_key, details) ==
    IF details # <<>>
      THEN LET t == GetMetricDetailsTable(metric_key, details)
           IN  IF t.headers # <<>> /\ t.rows # <<>>
                 THEN << Table(<<t.headers>> \o t.rows), Spacer(6) >>
                 ELSE LET bullet_points == FormatDetailsAsBullets(details, 0)
                      IN  [i \in 1..Len(bullet_points) |-> Paragraph(bullet_points[i])]
                            \o << Spacer(4) >>
      ELSE << Paragraph("No detailed forensic data available."), Spacer(4) >>

\* one pass of the loop over metric_order
MetricSection(result, metric_key) ==
    IF ~HasKey(result.metric_results, metric_key) THEN <<>>
    ELSE LET metric_result == Lookup(result.metric_results, metric_key)
         IN  << Paragraph(MetricDisplayName(metric_key)),
                Table(MetricSummaryData(metric_result)),
                Spacer(4) >>
               \o MetricDetailBlocks(metric_key, DetailsOrEmpty(metric_result))

\* Recommendation with the fault of strict comparisons
RecommendationStrict(score) ==
    IF score > ThresholdCritical
      THEN [ tier |-> "CRITICAL", color |-> COLOR_DANGER,
             text |-> "<b>CRITICAL</b>: Immediate manual verification required",
             next_steps |-> <<"Forensic analysis", "Reverse image search",
                              "Metadata inspection", "Expert review">> ]
    ELSE IF score > ThresholdHigh
      THEN [ tier |-> "HIGH", color |-> COLOR_WARNING,
             text |-> "<b>HIGH RISK</b>: Manual verification recommended",
             next_steps |-> <<"Visual inspection", "Compare with authentic samples",
                              "Check source provenance">> ]
    ELSE IF score > ThresholdMedium
      THEN [ tier |-> "MEDIUM", color |-> COLOR_MEDIUM,
             text |-> "<b>MEDIUM RISK</b>: Optional review suggested",
             next_steps |-> <<"May be edited photo", "Verify image source",
                              "Check for inconsistencies">> ]
    ELSE [ tier |-> "LOW", color |-> COLOR_SUCCESS,
           text |-> "<b>LOW RISK</b>: No immediate action required",
           next_steps |-> <<"Proceed with normal workflow">> ]

\* Recommendation with the fault of rejecting a score outside [0, 1]
\* (within the range score + 1 > t is score >= t, so the tiers are kept)
RecommendationRanged(score) ==
    IF score < 0 \/ score > Unit
      THEN [ tier |-> "ERROR", color |-> COLOR_DANGER,
             text |-> "<b>ERROR</b>: score out of range",
             next_steps |-> <<>> ]
    ELSE RecommendationStrict(score + 1)

\* the recommendation chosen for an overall score
Recommendation(score) ==
    IF score >= ThresholdCritical
      THEN [ tier |-> "CRITICAL", color |-> COLOR_DANGER,
             text |-> "<b>CRITICAL</b>: Immediate manual verification required",
             next_steps |-> <<"Forensic analysis", "Reverse image search",
                              "Metadata inspection", "Expert review">> ]
    ELSE IF score >= ThresholdHigh
      THEN [ tier |-> "HIGH", color |-> COLOR_WARNING,
             text |-> "<b>HIGH RISK</b>: Manual verification recommended",
             next_steps |-> <<"Visual inspection", "Compare with authentic samples",
                              "Check source provenance">> ]
    ELSE IF score >= ThresholdMedium
      THEN [ tier |-> "MEDIUM", color |-> COLOR_MEDIUM,
             text |-> "<b>MEDIUM RISK</b>: Optional review suggested",
             next_steps |-> <<"May be edited photo", "Verify image source",
                              "Check for inconsistencies">> ]
    ELSE [ tier |-> "LOW", color |-> COLOR_SUCCESS,
           text |-> "<b>LOW RISK</b>: No immediate action required",
           next_steps |-> <<"Proceed with normal workflow">> ]

RecommendationBlocks(score) ==
    LET rec == Recommendation(score)
    IN  << Paragraph("Recommendation"), Table(<< <<rec.text>> >>), Spacer(4) >>
          \o [i \in 1..Len(rec.next_steps) |-> Paragraph("* " \o rec.next_steps[i])]

\* _add_comprehensive_single_image(story, result): the blocks it appends
AddComprehensiveSingleImage(result) ==
    << Paragraph("Basic Information"), Table(OverviewData(result)), Spacer(8),
       Paragraph("Detection Signals Analysis"), Table(SingleSignalData(result)), Spacer(8),
       Paragraph("Detailed Forensic Analysis") >>
      \o Flatten([i \in 1..Len(MetricOrder) |-> MetricSection(result, MetricOrder[i])])
      \o RecommendationBlocks(result.overall_score)

---------------------------------------------------------------------------
(* The digest layout *)

\* f"{v:.3f}" and f"{v:.2f}" of a float or int value
FmtValue(v, d) == FmtFixed(IF IsFloat(v) THEN v.n ELSE v.n * Unit, d)

\* _add_detailed_batch_summary(story, batch_result): the blocks it appends
AddDetailedBatchSummary(batch_result) ==
    LET summary == batch_result.summary
        Get(k)  == GetOr(summary, k, VInt(0))
    IN  << Paragraph("Batch Summary"),
           Table(<<
             << "<b>Total Images:</b>", ToString(batch_result.total_images),
                "<b>Processed:</b>",
                "<font color='green'>" \o ToString(batch_result.processed) \o "</font>",
                "<b>Failed:</b>",
                IF batch_result.failed > 0
                  THEN "<font color='red'>" \o ToString(batch_result.failed) \o "</font>"
                  ELSE IntStr(batch_result.failed) >>,
             << "<b>Authentic:</b>",
                "<font color='green'>" \o Str(Get("likely_authentic")) \o "</font>",
                "<b>Review Required:</b>",
                "<font color='orange'>" \o Str(Get("review_required")) \o "</font>",
                "<b>Success Rate:</b>", Str(Get("success_rate")) \o "%" >>,
             << "<b>Average Score:</b>", FmtValue(Get("avg_score"), 3),
                "<b>Average Confidence:</b>", Str(Get("avg_confidence")) \o "%",
                "<b>Avg Processing Time:</b>", FmtValue(Get("avg_proc_time"), 2) \o "s" >>,
             << "<b>Total Processing Time:</b>",
                Fmt2(batch_result.total_processing_time) \o "s", "", "", "", "" >> >>) >>

\* the longest signal name and explanation that the digest shows in full
NameLimit == 20
ExplanationLimit == 60

\* s[:n]
Prefix(s, n) == IF Len(s) > n THEN SubSeq(s, 1, n) ELSE s

\* MiniSignalRow with the fault of cutting at the limit, not above it
MiniSignalRowEager(signal) ==
    << Prefix(signal.name, NameLimit - 1),
       Fmt3(signal.score),
       GetSignalStatusHtml(signal.status),
       IF Len(signal.explanation) >= ExplanationLimit
         THEN Prefix(signal.explanation, ExplanationLimit) \o "..."
         ELSE signal.explanation >>

MiniSignalRow(signal) ==
    << Prefix(signal.name, NameLimit),
       Fmt3(signal.score),
       GetSignalStatusHtml(signal.status),
       IF Len(signal.explanation) > ExplanationLimit
         THEN Prefix(signal.explanation, ExplanationLimit) \o "..."
         ELSE signal.explanation >>

\* the title of the sub-section of image idx of total
MiniTitle(result, idx, total) ==
    "Image " \o ToString(idx) \o "/" \o ToString(total) \o ": " \o result.filename

\* _add_comprehensive_image_mini(story, result, idx, total): the blocks it appends
AddComprehensiveImageMini(result, idx, total) ==
    << Paragraph(MiniTitle(result, idx, total)),
       Table(<<
         << "<b>Status:</b>", GetStatusHtml(result.status),
            "<b>Score:</b>", Fmt3(result.overall_score),
            "<b>Confidence:</b>", ToString(result.confidence) \o "%" >>,
         << "<b>Size:</b>",
            ToString(result.image_size[1]) \o "x" \o ToString(result.image_size[2]),
            "<b>Time:</b>", Fmt3(result.processing_time) \o "s", "", "" >> >>),
       Spacer(4),
       Table(<< HeaderRow(<<"Metric", "Score", "Status", "Explanation">>) >>
               \o [i \in 1..Len(result.signals) |-> MiniSignalRow(result.signals[i])]),
       Spacer(6) >>

---------------------------------------------------------------------------
(* The matrix layout *)

RECURSIVE MaxByScoreLast(_, _)
\* MaxByScore with the fault of a later signal winning a tie
MaxByScoreLast(best, rest) ==
    IF rest = <<>> THEN best
    ELSE MaxByScoreLast(IF Head(rest).score >= best.score THEN Head(rest) ELSE best,
                        Tail(rest))

RECURSIVE MaxByScore(_, _)
\* max(signals, key=lambda s: s.score), continued from the best so far: a
\* later signal replaces it only with a strictly greater score
MaxByScore(best, rest) ==
    IF rest = <<>> THEN best
    ELSE MaxByScore(IF Head(rest).score > best.score THEN Head(rest) ELSE best,
                    Tail(rest))

\* the Top Signal cell of an image's row
TopSignalCell(result) ==
    IF result.signals # <<>>
      THEN LET top_signal == MaxByScore(Head(result.signals), Tail(result.signals))
           IN  top_signal.name \o ": " \o Fmt2(top_signal.score)
      ELSE "N/A"

MatrixHeaders ==
    <<"#", "Filename", "Image Size", "Score", "Status", "Top Signal", "Confidence", "Time(s)">>

MatrixRow(result, idx) ==
    << ToString(idx),
       result.filename,
       ToString(result.image_size[1]) \o "x" \o ToString(result.image_size[2]),
       Fmt3(result.overall_score),
       GetStatusHtml(result.status),
       TopSignalCell(result),
       ToString(result.confidence) \o "%",
       Fmt2(result.processing_time) >>

\* _add_batch_summary_matrix(story, batch_result): the blocks it appends
AddBatchSummaryMatrix(batch_result) ==
    << Paragraph("Batch Overview Matrix"),
       Table(<< HeaderRow(MatrixHeaders) >>
               \o [i \in 1..Len(batch_result.results) |->
                     MatrixRow(batch_result.results[i], i)]) >>

\* an extractor of metric_configs: d.get(key, 'N/A'), or one of the two
\* color look-ups
Getter(key)      == [how |-> "get", key |-> key]
ColorGetter(key) == [how |-> "color", key |-> key]
ReasonGetter     == [how |-> "reason", key |-> "reason"]

ApplyExtractor(e, details) ==
    CASE e.how = "get"   -> GetOr(details, e.key, VStr("N/A"))
      [] e.how = "color" -> ExtractColorDetail(details, e.key)
      [] OTHER           -> ExtractColorReason(details)

Config(title, headers, extractors) ==
    [title |-> title, headers |-> headers, extractors |-> extractors]

\* metric_configs[metric_key]
MetricConfig(metric_key) ==
    CASE metric_key = "gradient" ->
          Config("Gradient-Field PCA Analysis",
                 <<"Filename", "Eigenvalue Ratio", "Vectors Sampled", "Original Pixels",
                   "Filtered Vectors", "Threshold", "Score", "Confidence">>,
                 << Getter("eigenvalue_ratio"), Getter("gradient_vectors_sampled"),
                    Getter("original_pixels"), Getter("filtered_vectors"),
                    Getter("threshold") >>)
      [] metric_key = "frequency" ->
          Config("Frequency Analysis (FFT)",
                 <<"Filename", "HF Ratio", "Roughness", "Low Freq Energy", "High Freq Energy",
                   "HF Anomaly", "Spectral Deviation", "Score", "Confidence">>,
                 << Getter("hf_ratio"), Getter("roughness"), Getter("low_freq_energy"),
                    Getter("high_freq_energy"), Getter("hf_anomaly"),
                    Getter("spectral_deviation") >>)
      [] metric_key = "noise" ->
          Config("Noise Pattern Analysis",
                 <<"Filename", "Mean Noise", "CV", "Patches Total", "Patches Valid",
                   "Noise Level Anomaly", "Reason", "Score", "Confidence">>,
                 << Getter("mean_noise"), Getter("cv"), Getter("patches_total"),
                    Getter("patches_valid"), Getter("noise_level_anomaly"),
                    Getter("reason") >>)
      [] metric_key = "texture" ->
          Config("Texture Statistics",
                 <<"Filename", "Smooth Ratio", "Contrast Mean", "Entropy Mean", "Patches Used",
                   "Edge Density", "Contrast CV", "Score", "Confidence">>,
                 << Getter("smooth_ratio"), Getter("contrast_mean"), Getter("entropy_mean"),
                    Getter("patches_used"), Getter("edge_density_mean"),
                    Getter("contrast_cv") >>)
      [] OTHER ->
          Config("Color Distribution",
                 <<"Filename", "Mean Saturation", "High Sat Ratio", "Top3 Concentration",
                   "Gap Ratio", "Histogram Roughness", "Reason", "Score", "Confidence">>,
                 << ColorGetter("mean_saturation"), ColorGetter("high_sat_ratio"),
                    ColorGetter("top3_concentration"), ColorGetter("gap_ratio"),
                    ColorGetter("roughness_mean"), ReasonGetter >>)

\* the keys of metric_configs, in the order of the dict literal
MetricConfigKeys == <<"gradient", "frequency", "noise", "texture", "color">>

\* the cell of an extracted value: a float to 3 decimals, else str(value)
MatrixCell(value) == IF IsFloat(value) THEN Fmt3(value.n) ELSE Str(value)

\* the Confidence cell of a comparison row: "N/A" for a falsy confidence
MatrixConfidence(metric_result) ==
    IF metric_result.confidence # <<>> /\ metric_result.confidence[1] # 0
      THEN Fmt3(metric_result.confidence[1]) ELSE "N/A"

\* the row of one image in the comparison table of metric_key
ComparisonRow(result, metric_key) ==
    LET metric_result == Lookup(result.metric_results, metric_key)
        details       == DetailsOrEmpty(metric_result)
        extractors    == MetricConfig(metric_key).extractors
    IN  << result.filename >>
          \o [i \in 1..Len(extractors) |-> MatrixCell(ApplyExtractor(extractors[i], details))]
          \o << Fmt3(metric_result.score), MatrixConfidence(metric_result) >>

\* the data rows of the comparison table of metric_key: the images without
\* that metric result are passed over
ComparisonRows(results, metric_key) ==
    LET present == SelectSeq(results, LAMBDA r : HasKey(r.metric_results, metric_key))
    IN  [i \in 1..Len(present) |-> ComparisonRow(present[i], metric_key)]

\* ComparisonTable with the fault of a table without rows being left out
ComparisonTableSkipEmpty(results, metric_key) ==
    IF ComparisonRows(results, metric_key) = <<>> THEN <<>>
    ELSE << Spacer(8),
            Paragraph(MetricConfig(metric_key).title),
            Table(<< HeaderRow(MetricConfig(metric_key).headers) >>
                    \o ComparisonRows(results, metric_key)) >>

\* one pass of the loop over metric_configs
ComparisonTable(results, metric_key) ==
    << Spacer(8),
       Paragraph(MetricConfig(metric_key).title),
       Table(<< HeaderRow(MetricConfig(metric_key).headers) >>
               \o ComparisonRows(results, metric_key)) >>

\* _add_comprehensive_metric_tables(story, results): the blocks it appends
AddComprehensiveMetricTables(results) ==
    Flatten([i \in 1..Len(MetricConfigKeys) |-> ComparisonTable(results, MetricConfigKeys[i])])

---------------------------------------------------------------------------
(* The signal summary of the continuation section *)

\* counts[key] = counts.get(key, 0) + 1, for the items of a dict of counts
Increment(counts, key) ==
    IF HasKey(counts, key)
      THEN [i \in 1..Len(counts) |->
              IF counts[i].k = key THEN Item(key, counts[i].v + 1) ELSE counts[i]]
      ELSE Append(counts, Item(key, 1))

\* every signal of every result, in the order of the two nested loops
AllSignals(results) == Flatten([i \in 1..Len(results) |-> results[i].signals])

RECURSIVE CountBy(_, _, _)
\* the counts after the loops, from the counts before them
CountBy(counts, signals, field) ==
    IF signals = <<>> THEN counts
    ELSE CountBy(Increment(counts, Head(signals)[field]), Tail(signals), field)

\* a variant that starts from no entries, as metric_counts does
StatusCountsSparse(results) == CountBy(<<>>, AllSignals(results), "status")

StatusCounts(results) ==
    CountBy(<< Item("flagged", 0), Item("warning", 0), Item("passed", 0) >>,
            AllSignals(results), "status")

\* metric_counts: computed by the loops, and not used after them
MetricCounts(results) == CountBy(<<>>, AllSignals(results), "metric_type")

RECURSIVE SumCounts(_)
\* sum(counts.values())
SumCounts(counts) == IF counts = <<>> THEN 0 ELSE Head(counts).v + SumCounts(Tail(counts))

\* f"{count / total * 100:.1f}" for total > 0: the quotient in tenths of a
\* percent, rounded to the nearest, a tie to the even one
PercentStr(count, total) ==
    LET num   == count * 1000
        q     == num \div total
        r2    == 2 * (num % total)
        tenth == IF r2 > total \/ (r2 = total /\ q % 2 = 1) THEN q + 1 ELSE q
    IN  ToString(tenth \div 10) \o "." \o ToString(tenth % 10)

StatusRow(status, count, total_signals) ==
    << GetSignalStatusHtml(status),
       ToString(count),
       (IF total_signals > 0 THEN PercentStr(count, total_signals) ELSE "0.0") \o "%" >>

\* _add_signal_summary_tables(story, results): the blocks it appends
AddSignalSummaryTables(results) ==
    LET status_counts == StatusCounts(results)
        total_signals == SumCounts(status_counts)
    IN  << Paragraph("Signal Status Summary"),
           Paragraph("Signal Status Distribution"),
           Table(<< HeaderRow(<<"Status", "Count", "Percentage">>) >>
                   \o [i \in 1..Len(status_counts) |->
                         StatusRow(status_counts[i].k, status_counts[i].v, total_signals)]) >>

---------------------------------------------------------------------------
(* export_single and export_batch *)

\* ResultAfterExportBatch with the fault of the signals of every result being
\* sorted in place by falling score (signals.sort in place of max)
ResultAfterExportBatchSorted(batch_result) ==
    [ batch_result EXCEPT
        !.results = [i \in 1..Len(batch_result.results) |->
           [ batch_result.results[i] EXCEPT
               !.signals = IF Len(@) = 2 /\ @[1].score < @[2].score
                             THEN << @[2], @[1] >> ELSE @ ] ] ]

\* the result object after export_single(result): no statement of
\* export_single or of the methods it calls assigns to an attribute of
\* result, of a signal or of a metric result, or to an item of a detail
\* record; they are read only
ResultAfterExportSingle(result) == result

\* the batch object after export_batch(batch_result): read only too; the
\* only dicts written are the locals status_counts and metric_counts
ResultAfterExportBatch(batch_result) == batch_result

\* export_single(result): the story handed to doc.build
ExportSingleStory(result) ==
    AddWatermarkedHeader("Single Image Analysis Report", result.timestamp)
      \o AddComprehensiveSingleImage(result)
      \o AddFooter

\* the largest batch of the digest layout, the image after which the digest
\* breaks the page, and the batch size above which the matrix continues
DigestMax == 5
DigestBreakAfter == 3
ContinuationAbove == 8

\* SelectLayout with the fault of a strict upper comparison
SelectLayoutStrict(num_images) ==
    IF num_images = 1 THEN "single"
    ELSE IF 1 < num_images /\ num_images < DigestMax THEN "digest"
    ELSE "matrix"

\* SelectLayout with the fault of a batch of one taking the digest branch
SelectLayoutNoSingle(num_images) ==
    IF 1 <= num_images /\ num_images <= DigestMax THEN "digest"
    ELSE "matrix"

\* the branch of export_batch that a batch of num_images takes
SelectLayout(num_images) ==
    IF num_images = 1 THEN "single"
    ELSE IF 1 < num_images /\ num_images <= DigestMax THEN "digest"
    ELSE "matrix"

BatchTitle(num_images) == "Batch Analysis Report (" \o IntStr(num_images) \o " Images)"

\* Continuation with the fault of a break that opens a page without header
ContinuationNoHeader(batch_result) == << PageBreak >>

\* PageBreak and the header of the continuation page
Continuation(batch_result) ==
    << PageBreak >>
      \o AddWatermarkedHeader(BatchTitle(Len(batch_result.results)) \o " - Continued",
                              batch_result.timestamp)

\* DigestStep with the fault of a break that does not look at the batch size
DigestStepAlwaysBreaks(batch_result, idx) ==
    (IF idx > 1 THEN << Spacer(4) >> ELSE <<>>)
      \o AddComprehensiveImageMini(batch_result.results[idx], idx,
                                   Len(batch_result.results))
      \o (IF idx = DigestBreakAfter THEN Continuation(batch_result) ELSE <<>>)

\* one pass of the loop of the digest branch
DigestStep(batch_result, idx) ==
    LET num_images == Len(batch_result.results)
    IN  (IF idx > 1 THEN << Spacer(4) >> ELSE <<>>)
          \o AddComprehensiveImageMini(batch_result.results[idx], idx, num_images)
          \o (IF idx = DigestBreakAfter /\ num_images > DigestBreakAfter
                THEN Continuation(batch_result) ELSE <<>>)

DigestBody(batch_result) ==
    AddDetailedBatchSummary(batch_result)
      \o << Spacer(6) >>
      \o Flatten([idx \in 1..Len(batch_result.results) |-> DigestStep(batch_result, idx)])

\* MatrixContinuation with the fault of an inclusive comparison
MatrixContinuationInclusive(batch_result) ==
    IF Len(batch_result.results) >= ContinuationAbove
      THEN Continuation(batch_result) \o AddSignalSummaryTables(batch_result.results)
      ELSE <<>>

\* the continuation section of the matrix branch
MatrixContinuation(batch_result) ==
    IF Len(batch_result.results) > ContinuationAbove
      THEN Continuation(batch_result) \o AddSignalSummaryTables(batch_result.results)
      ELSE <<>>

MatrixBody(batch_result) ==
    AddBatchSummaryMatrix(batch_result)
      \o << Spacer(6) >>
      \o AddComprehensiveMetricTables(batch_result.results)
      \o MatrixContinuation(batch_result)

\* export_batch(batch_result): the story handed to doc.build
ExportBatchStory(batch_result) ==
    LET num_images == Len(batch_result.results)
        layout     == SelectLayout(num_images)
    IN  AddWatermarkedHeader(BatchTitle(num_images), batch_result.timestamp)
          \o (CASE layout = "single" -> AddComprehensiveSingleImage(batch_result.results[1])
                [] layout = "digest" -> DigestBody(batch_result)
                [] OTHER             -> MatrixBody(batch_result))
          \o AddFooter

---------------------------------------------------------------------------
(* The inputs of the model *)

Timestamp == "2026-01-15 10:30:00"

SigGradient ==
    Signal("Gradient-Field PCA", 9 * Pow10(5), "flagged",
           "Gradient field is unusually regular", "gradient")
SigFrequency ==
    Signal("Frequency Analysis", 9 * Pow10(5), "warning",
           "High-frequency energy deviates from the spectrum that camera images show",
           "frequency")
SigNoise ==
    Signal("Noise Pattern Analysis (patch based)", 3 * Pow10(5), "passed", "", "noise")
SigColor ==
    Signal("Color Distribution", 512345, "passed", "Saturation within range", "color")

\* a signal whose name and explanation are exactly as long as the digest shows
SigTexture ==
    Signal("Texture Stats (GLCM)", 6 * Pow10(5), "warning",
           "Smooth regions cover most patches and contrast is uniform ok", "texture")

SignalSeq  == << SigGradient, SigFrequency, SigNoise, SigColor, SigTexture >>
SignalPool == {SignalSeq[i] : i \in 1..Len(SignalSeq)}

\* overall scores: the thresholds, their neighbours, the ends of [0, 1] and a
\* score on either side of the range
ScoreSeq ==
    << 0, ThresholdMedium - 1, ThresholdMedium, ThresholdHigh - 1, ThresholdHigh,
       ThresholdCritical - 1, ThresholdCritical, Unit, 0 - 250000, Unit + 250000 >>
ScorePool == {ScoreSeq[i] : i \in 1..Len(ScoreSeq)}

SubRecA ==
    VDict(<< Item("high_sat_ratio", VFloat(250000)), Item("reason", VStr("")) >>)
SubRecB ==
    VDict(<< Item("reason", VStr("low saturation")), Item("high_sat_ratio", VFloat(731000)),
             Item("mean_saturation", VInt(3)) >>)
SubRecDeep ==
    VDict(<< Item("inner", VDict(<< Item("deep", VNone) >>)), Item("list", VList(<<>>)) >>)
ListValue == VList(<< VFloat(500000), VStr("x") >>)

\* the values of the generated detail records: mappings, an empty mapping, a
\* float and a sequence
ValuePool == { SubRecA, SubRecB, SubRecDeep, VDict(<<>>), VFloat(123456), ListValue }

\* the detail records (dict items) of at most MaxFields fields with keys of
\* keys and values of values
DetailRecords(keys, values) ==
    UNION { { [i \in 1..Len(ks) |-> Item(ks[i], vs[i])] : vs \in [1..Len(ks) -> values] }
            : ks \in DistinctSeqsUpTo(keys, MaxFields) }

DetGradient ==
    VDict(<< Item("eigenvalue_ratio", VFloat(812346)),
             Item("gradient_vectors_sampled", VInt(5000)),
             Item("threshold", VFloat(850000)) >>)
DetUnmatched ==
    VDict(<< Item("note", VStr("insufficient gradients")), Item("bins", ListValue) >>)
DetColor ==
    VDict(<< Item("saturation_stats", SubRecB), Item("histogram_stats", SubRecA),
             Item("hue_stats", VDict(<< Item("reason", VStr("few saturated pixels")) >>)) >>)
DetColorNoRows ==
    VDict(<< Item("saturation_stats", VDict(<< Item("reason", VStr("")) >>)) >>)
DetNoise ==
    VDict(<< Item("reason", VStr("image too small")), Item("mean_noise", VFloat(20500)) >>)
\* a color record without a reason and without most of its fields
DetColorHistogram ==
    VDict(<< Item("histogram_stats", VDict(<< Item("high_sat_ratio", VFloat(250000)) >>)) >>)

\* the metric mappings of the composed results
MetricMapSeq ==
    << <<>>,
       << Item("gradient", MetricResult(900000, <<800000>>, DetGradient)) >>,
       << Item("color", MetricResult(412000, <<>>, DetColor)),
          Item("gradient", MetricResult(100000, <<0>>, DetUnmatched)) >>,
       << Item("noise", MetricResult(300000, <<500000>>, VNone)),
          Item("custom", MetricResult(700000, <<900000>>, DetGradient)),
          Item("color", MetricResult(480000, <<750000>>, DetColorHistogram)) >>,
       << Item("color", MetricResult(0, <<0>>, DetColorNoRows)),
          Item("frequency", MetricResult(650000, <<>>, VDict(<<>>))) >>,
       << Item("texture", MetricResult(550000, <<610000>>, DetUnmatched)),
          Item("noise", MetricResult(250000, <<>>, DetNoise)),
          Item("gradient", MetricResult(990000, <<1000000>>, DetGradient)) >> >>
MetricMapPool == {MetricMapSeq[i] : i \in 1..Len(MetricMapSeq)}

AnalysisResult(filename, overall_score, signals, metric_results) ==
    [ filename |-> filename, image_size |-> <<1920, 1080>>,
      overall_score |-> overall_score, confidence |-> 87,
      status |-> IF overall_score >= ThresholdMedium THEN "REVIEW_REQUIRED"
                 ELSE "LIKELY_AUTHENTIC",
      processing_time |-> 1234560, timestamp |-> Timestamp,
      signals |-> signals, metric_results |-> metric_results ]

\* the keys of the generated detail records of a metric type: the first two
\* and the last field of its schema, and a key of no schema
DetailKeys(metric_key) ==
    LET params == MetricParameters(IF IsRegistered(metric_key) THEN metric_key ELSE "gradient")
    IN  { params[1].key, params[2].key, params[Len(params)].key, "extra" }

\* results of one metric type with a generated detail record: of the first
\* and the last field of the schema and a key of no schema, with a float, an
\* empty mapping and the two mappings with a reason as values
DetailResults ==
    UNION { { AnalysisResult("detail.jpg", 612345, <<>>,
                             << Item(MetricOrder[m], MetricResult(612345, <<>>, VDict(d))) >>) :
                d \in DetailRecords(
                        { MetricParameters(MetricOrder[m])[1].key,
                          MetricParameters(MetricOrder[m])[Len(MetricParameters(MetricOrder[m]))].key,
                          "extra" },
                        { SubRecA, SubRecB, VDict(<<>>), VFloat(123456) }) }
            : m \in 1..Len(MetricOrder) }

\* the results that export_single is called with
SingleResults ==
    { AnalysisResult("photo.jpg", sc, sigs, mm) :
        sc \in ScorePool, sigs \in SeqsUpTo(SignalPool, MaxSignals), mm \in MetricMapPool }
      \cup DetailResults

\* the number of batch variants per batch size
Seeds == 12

\* image i of the batch variant seed: its score, signals and metric mapping
\* go through the pools as i and seed grow
BatchImage(i, seed) ==
    AnalysisResult("img_" \o ToString(i) \o ".png",
                   ScoreSeq[((seed + i) % Len(ScoreSeq)) + 1],
                   [j \in 1..((seed + i) % (MaxSignals + 1)) |->
                      SignalSeq[((seed + j * (i + 1)) % Len(SignalSeq)) + 1]],
                   MetricMapSeq[(((seed \div 2) + i) % Len(MetricMapSeq)) + 1])

BatchSummary(n) ==
    << Item("likely_authentic", VInt(n \div 2)), Item("review_required", VInt(n - (n \div 2))),
       Item("success_rate", VFloat(100 * Unit)), Item("avg_score", VFloat(612345)),
       Item("avg_confidence", VInt(87)), Item("avg_proc_time", VFloat(1234560)) >>

BatchAnalysisResult(n, seed) ==
    [ results |-> [i \in 1..n |-> BatchImage(i, seed)],
      total_images |-> n, processed |-> n, failed |-> 0,
      summary |-> IF seed % 2 = 0 THEN BatchSummary(n) ELSE <<>>,
      total_processing_time |-> n * 1234560,
      timestamp |-> Timestamp ]

\* a batch of n images none of which has a signal
NoSignalBatch(n) ==
    [ BatchAnalysisResult(n, 0) EXCEPT
        !.results = [i \in 1..n |-> [BatchImage(i, 0) EXCEPT !.signals = <<>>]] ]

\* the batches that export_batch is called with
Batches ==
    { BatchAnalysisResult(n, seed) : n \in 0..MaxImages, seed \in 0..(Seeds - 1) }
      \cup { NoSignalBatch(n) : n \in 0..MaxImages }

\* the metric keys that the helpers are called with
MetricKeyPool == {MetricOrder[i] : i \in 1..Len(MetricOrder)} \cup {"custom"}

\* the keys that _extract_color_detail is called with
ColorKeyPool == {"high_sat_ratio", "mean_saturation"}

---------------------------------------------------------------------------
(* The state machine: a reporter serves one call at a time *)

\* the threads that share one PDFReporter
Threads == {1, 2}

\* a thread that is in no call
NoCall == [at |-> 0, call |-> <<>>, built |-> <<>>]

Init ==
    /\ pc = "idle"
    /\ op = "none"
    /\ args = <<>>
    /\ story = <<>>
    /\ ret = <<>>
    /\ input = <<>>
    /\ thread = [t \in Threads |-> NoCall]
    /\ frames = [t \in Threads |-> <<>>]

ExportSingle ==
    /\ pc = "idle"
    /\ \E result \in SingleResults :
         /\ args' = [result |-> result]
         /\ story' = ExportSingleStory(result)
         /\ input' = ResultAfterExportSingle(result)
    /\ pc' = "returned"
    /\ op' = "export_single"
    /\ ret' = <<>>
    /\ UNCHANGED <<thread, frames>>

ExportBatch ==
    /\ pc = "idle"
    /\ \E batch_result \in Batches :
         /\ args' = [batch_result |-> batch_result]
         /\ story' = ExportBatchStory(batch_result)
         /\ input' = ResultAfterExportBatch(batch_result)
    /\ pc' = "returned"
    /\ op' = "export_batch"
    /\ ret' = <<>>
    /\ UNCHANGED <<thread, frames>>

CallGetMetricDetailsTable ==
    /\ pc = "idle"
    /\ \E metric_key \in MetricKeyPool :
         \E details \in DetailRecords(DetailKeys(metric_key), ValuePool) :
           /\ args' = [metric_key |-> metric_key, details |-> details]
           /\ ret' = GetMetricDetailsTable(metric_key, details)
    /\ pc' = "returned"
    /\ op' = "_get_metric_details_table"
    /\ story' = <<>>
    /\ UNCHANGED <<input, thread, frames>>

CallFormatDetailsAsBullets ==
    /\ pc = "idle"
    /\ \E details \in DetailRecords(DetailKeys("color"), ValuePool) :
         /\ args' = [details |-> details]
         /\ ret' = FormatDetailsAsBullets(details, 0)
    /\ pc' = "returned"
    /\ op' = "_format_details_as_bullets"
    /\ story' = <<>>
    /\ UNCHANGED <<input, thread, frames>>

CallExtractColorDetail ==
    /\ pc = "idle"
    /\ \E key \in ColorKeyPool :
         \E details \in DetailRecords(DetailKeys("color"), ValuePool) :
           /\ args' = [details |-> details, key |-> key]
           /\ ret' = ExtractColorDetail(details, key)
    /\ pc' = "returned"
    /\ op' = "_extract_color_detail"
    /\ story' = <<>>
    /\ UNCHANGED <<input, thread, frames>>

CallExtractColorReason ==
    /\ pc = "idle"
    /\ \E details \in DetailRecords(DetailKeys("color"), ValuePool) :
         /\ args' = [details |-> details]
         /\ ret' = ExtractColorReason(details)
    /\ pc' = "returned"
    /\ op' = "_extract_color_reason"
    /\ story' = <<>>
    /\ UNCHANGED <<input, thread, frames>>

\* the call returns to its caller, and its locals are gone
Return ==
    /\ pc = "returned"
    /\ pc' = "idle"
    /\ op' = "none"
    /\ args' = <<>>
    /\ story' = <<>>
    /\ ret' = <<>>
    /\ input' = <<>>
    /\ UNCHANGED <<thread, frames>>

\* the composition of reports
Next == ExportSingle \/ ExportBatch \/ Return

Spec == Init /\ [][Next]_vars

\* the extraction of detail rows, bullets and color values
NextExtract ==
    \/ CallGetMetricDetailsTable
    \/ CallFormatDetailsAsBullets
    \/ CallExtractColorDetail
    \/ CallExtractColorReason
    \/ Return

SpecExtract == Init /\ [][NextExtract]_vars

---------------------------------------------------------------------------
(* Two threads call the export methods of one reporter.  The reporter's    *)
(* attributes are written by __init__ only; the story list, the document   *)
(* and the counts are locals of the call.                                  *)

\* the calls that the threads make
ConcurrentCalls ==
    { [op |-> "export_single",
       arg |-> AnalysisResult("photo.jpg", ThresholdHigh, << SigGradient >>, MetricMapSeq[3])],
      [op |-> "export_single",
       arg |-> AnalysisResult("scan.png", 0, << SigNoise, SigColor >>, MetricMapSeq[6])] }
      \cup { [op |-> "export_batch", arg |-> BatchAnalysisResult(n, 0)] : n \in {1, 3, 6, 9} }

\* the appends of a call to its story, in their order: the header, the body
\* of the layout, the footer
StorySteps(call) ==
    IF call.op = "export_single"
      THEN << AddWatermarkedHeader("Single Image Analysis Report", call.arg.timestamp),
              AddComprehensiveSingleImage(call.arg),
              AddFooter >>
      ELSE LET num_images == Len(call.arg.results)
               layout     == SelectLayout(num_images)
           IN  << AddWatermarkedHeader(BatchTitle(num_images), call.arg.timestamp),
                  CASE layout = "single" -> AddComprehensiveSingleImage(call.arg.results[1])
                    [] layout = "digest" -> DigestBody(call.arg)
                    [] OTHER             -> MatrixBody(call.arg),
                  AddFooter >>

\* StoryOwner with the fault of the story being kept on the reporter
StoryOwnerShared(t) == 1

\* the owner of the story list of the call of thread t: `story = []` binds a
\* local of the call, so each call in progress has its own
StoryOwner(t) == t

\* thread t enters export_single or export_batch: story = []
Begin(t) ==
    /\ thread[t].at = 0
    /\ \E call \in ConcurrentCalls :
         thread' = [thread EXCEPT ![t] = [at |-> 1, call |-> call, built |-> <<>>]]
    /\ frames' = [frames EXCEPT ![StoryOwner(t)] = <<>>]
    /\ UNCHANGED <<pc, op, args, story, ret, input>>

\* thread t makes the next of its appends
StoryAppend(t) ==
    /\ thread[t].at >= 1
    /\ thread[t].at \in 1..Len(StorySteps(thread[t].call))
    /\ frames' = [frames EXCEPT ![StoryOwner(t)] = @ \o StorySteps(thread[t].call)[thread[t].at]]
    /\ thread' = [thread EXCEPT ![t].at = @ + 1]
    /\ UNCHANGED <<pc, op, args, story, ret, input>>

\* thread t hands its story to doc.build
Build(t) ==
    /\ thread[t].at >= 1
    /\ thread[t].at = Len(StorySteps(thread[t].call)) + 1
    /\ thread' = [thread EXCEPT ![t].at = @ + 1, ![t].built = frames[StoryOwner(t)]]
    /\ UNCHANGED <<pc, op, args, story, ret, input, frames>>

\* thread t returns from its call
End(t) ==
    /\ thread[t].at >= 1
    /\ thread[t].at = Len(StorySteps(thread[t].call)) + 2
    /\ thread' = [thread EXCEPT ![t] = NoCall]
    /\ frames' = [frames EXCEPT ![StoryOwner(t)] = <<>>]
    /\ UNCHANGED <<pc, op, args, story, ret, input>>

NextConcurrent ==
    \E t \in Threads : Begin(t) \/ StoryAppend(t) \/ Build(t) \/ End(t)

SpecConcurrent == Init /\ [][NextConcurrent]_vars

---------------------------------------------------------------------------
(* Properties of the composition.  They read the arguments of the call and *)
(* the story it produced.                                                  *)

RECURSIVE SumSeq(_)
\* the sum of a sequence of numbers
SumSeq(ns) == IF ns = <<>> THEN 0 ELSE Head(ns) + SumSeq(Tail(ns))

\* the indices of the PageBreak blocks of a story
PageBreaks(s) == {i \in 1..Len(s) : s[i].kind = "PageBreak"}

\* the indices of the paragraphs of a story with the given text
ParagraphsAt(s, text) == {i \in 1..Len(s) : s[i].kind = "Paragraph" /\ s[i].text = text}

\* the section title that only the single, the digest, the matrix layout emits
ShowsSingle(s) == ParagraphsAt(s, "Basic Information") # {}
ShowsDigest(s) == ParagraphsAt(s, "Batch Summary") # {}
ShowsMatrix(s) == ParagraphsAt(s, "Batch Overview Matrix") # {}

BatchCall == pc = "returned" /\ op = "export_batch"
SingleCall == pc = "returned" /\ op = "export_single"

\* the results of the batch that export_batch was called with
BatchResults == args.batch_result.results
NumImages == Len(BatchResults)

\* whether s starts with the string p
StartsWith(s, p) == Len(s) >= Len(p) /\ SubSeq(s, 1, Len(p)) = p

\* C1: for every batch of n >= 1 results, export_batch emits the sections of
\* exactly one layout, and which one is decided by n alone: the single
\* layout for n = 1, the digest for 2 <= n <= 5, the matrix for n > 5.
C1_LayoutByCount ==
    (BatchCall /\ NumImages >= 1) =>
        /\ ShowsSingle(story) <=> NumImages = 1
        /\ ShowsDigest(story) <=> (2 <= NumImages /\ NumImages <= 5)
        /\ ShowsMatrix(story) <=> NumImages > 5

\* C1 witness: a batch of five, the largest digest
C1_Witness ==
    BatchCall /\ NumImages = 5 /\ ShowsDigest(story) /\ ~ShowsMatrix(story)

\* the index of the title of the digest sub-section of image k (0: none)
MiniTitleAt(k) ==
    LET hits == ParagraphsAt(story, MiniTitle(BatchResults[k], k, NumImages))
    IN  IF hits = {} THEN 0 ELSE CHOOSE i \in hits : \A j \in hits : i <= j

\* the blocks of s from index a up to, not including, index b
Blocks(s, a, b) == SubSeq(s, a, b - 1)

\* C2: in the digest layout (2 <= n <= 5) there is no forced page break for
\* n <= 3 and exactly one for n = 4 and n = 5; that break comes right after
\* the last block of the third image's sub-section and before the fourth
\* image's sub-section.
C2_DigestBreak ==
    (BatchCall /\ 2 <= NumImages /\ NumImages <= 5) =>
        IF NumImages <= 3
          THEN PageBreaks(story) = {}
          ELSE /\ Cardinality(PageBreaks(story)) = 1
               /\ LET p == CHOOSE i \in PageBreaks(story) : TRUE
                  IN  /\ MiniTitleAt(3) # 0
                      /\ MiniTitleAt(3) < p
                      /\ Blocks(story, MiniTitleAt(3), p) =
                           AddComprehensiveImageMini(BatchResults[3], 3, NumImages)
                      /\ p < MiniTitleAt(4)

\* C2 witness: a digest of four with its page break
C2_Witness ==
    BatchCall /\ NumImages = 4 /\ PageBreaks(story) # {}

\* the result whose single layout the story shows
ShownResult == IF op = "export_single" THEN args.result ELSE BatchResults[1]

\* the index of the Recommendation title
RecommendationAt == CHOOSE i \in ParagraphsAt(story, "Recommendation") : TRUE

\* the text of the recommendation box
ShownRecommendation == story[RecommendationAt + 1].data[1][1]

\* the next steps listed between the recommendation box and the footer
ShownNextSteps ==
    LET first == RecommendationAt + 3
        last  == Len(story) - Len(AddFooter)
    IN  [j \in 1..(last - first + 1) |-> story[first + j - 1].text]

\* the tier that the claim gives a score (in millionths)
TierOfScore(score) ==
    IF score >= 850000 THEN "CRITICAL"
    ELSE IF score >= 700000 THEN "HIGH"
    ELSE IF score >= 500000 THEN "MEDIUM"
    ELSE "LOW"

\* the tier named in the recommendation box
ShownTier ==
    CASE StartsWith(ShownRecommendation, "<b>CRITICAL</b>")    -> "CRITICAL"
      [] StartsWith(ShownRecommendation, "<b>HIGH RISK</b>")   -> "HIGH"
      [] StartsWith(ShownRecommendation, "<b>MEDIUM RISK</b>") -> "MEDIUM"
      [] StartsWith(ShownRecommendation, "<b>LOW RISK</b>")    -> "LOW"
      [] OTHER -> "none"

\* the next steps of each tier
StepsOfTier(tier) ==
    CASE tier = "CRITICAL" -> <<"* Forensic analysis", "* Reverse image search",
                                "* Metadata inspection", "* Expert review">>
      [] tier = "HIGH"     -> <<"* Visual inspection", "* Compare with authentic samples",
                                "* Check source provenance">>
      [] tier = "MEDIUM"   -> <<"* May be edited photo", "* Verify image source",
                                "* Check for inconsistencies">>
      [] OTHER             -> <<"* Proceed with normal workflow">>

\* C3: the recommendation of the single layout names the tier of the overall
\* score with inclusive lower bounds (>= 0.85 CRITICAL, >= 0.70 HIGH,
\* >= 0.50 MEDIUM, else LOW), so a score on a threshold is in the higher
\* tier and a score just below it in the lower one, and it lists the fixed
\* next steps of that tier, in their order.
C3_RiskTier ==
    (SingleCall \/ (BatchCall /\ NumImages = 1)) =>
        /\ ShownTier = TierOfScore(ShownResult.overall_score)
        /\ ShownNextSteps = StepsOfTier(TierOfScore(ShownResult.overall_score))

\* C3 witness: the score 0.85 is shown as CRITICAL
C3_Witness ==
    SingleCall /\ args.result.overall_score = 850000 /\ ShownTier = "CRITICAL"

\* the index of the overview matrix: the table after its section title
MatrixTableAt == (CHOOSE i \in ParagraphsAt(story, "Batch Overview Matrix") : TRUE) + 1

\* the index of the first signal of sigs with the greatest score
FirstMaxIndex(sigs) ==
    CHOOSE m \in 1..Len(sigs) :
        /\ \A k \in 1..Len(sigs) : sigs[k].score <= sigs[m].score
        /\ \A k \in 1..(m - 1) : sigs[k].score < sigs[m].score

\* C8: in the matrix layout the Top Signal cell of an image names a signal
\* of the greatest score among the image's signals, the first of them in
\* the signal sequence when several share that score, with its score; for
\* an image without signals the cell is 'N/A'.
C8_TopSignal ==
    (BatchCall /\ NumImages > 5) =>
        \A i \in 1..NumImages :
            LET sigs == BatchResults[i].signals
                cell == story[MatrixTableAt].data[i + 1][6]
            IN  IF sigs = <<>> THEN cell = "N/A"
                ELSE cell = sigs[FirstMaxIndex(sigs)].name \o ": "
                              \o Fmt2(sigs[FirstMaxIndex(sigs)].score)

\* C8 witness: an image whose greatest score is shared by two signals of
\* different names, the cell naming the earlier one
C8_Witness ==
    /\ BatchCall
    /\ NumImages > 5
    /\ \E i \in 1..NumImages :
         LET sigs == BatchResults[i].signals
         IN  /\ Len(sigs) >= 2
             /\ \E k \in 1..Len(sigs) :
                  /\ k > FirstMaxIndex(sigs)
                  /\ sigs[k].score = sigs[FirstMaxIndex(sigs)].score
                  /\ sigs[k].name # sigs[FirstMaxIndex(sigs)].name
             /\ StartsWith(story[MatrixTableAt].data[i + 1][6],
                           sigs[FirstMaxIndex(sigs)].name)

\* the metric types of the five metric comparison tables
ComparisonKeys == {"gradient", "frequency", "noise", "texture", "color"}

\* the titles of the five metric comparison tables
ComparisonTitles ==
    { "Gradient-Field PCA Analysis", "Frequency Analysis (FFT)", "Noise Pattern Analysis",
      "Texture Statistics", "Color Distribution" }

\* C9: in the matrix layout (n > 5) the story has no forced page break and
\* no signal-status section for 6 <= n <= 8; for n > 8 it has exactly one
\* page break, followed at once by the continuation header and then by the
\* one signal-status section, all after the five metric comparison tables.
C9_MatrixContinuation ==
    (BatchCall /\ NumImages > 5) =>
        IF NumImages <= 8
          THEN /\ PageBreaks(story) = {}
               /\ ParagraphsAt(story, "Signal Status Summary") = {}
          ELSE /\ Cardinality(PageBreaks(story)) = 1
               /\ Cardinality(ParagraphsAt(story, "Signal Status Summary")) = 1
               /\ LET p == CHOOSE i \in PageBreaks(story) : TRUE
                      q == CHOOSE i \in ParagraphsAt(story, "Signal Status Summary") : TRUE
                  IN  /\ p < q
                      /\ Blocks(story, p + 1, q) =
                           AddWatermarkedHeader(
                               "Batch Analysis Report (" \o ToString(NumImages)
                                  \o " Images) - Continued",
                               args.batch_result.timestamp)
                      /\ \A title \in ComparisonTitles :
                           /\ Cardinality(ParagraphsAt(story, title)) = 1
                           /\ \A t \in ParagraphsAt(story, title) :
                                story[t + 1].kind = "Table" /\ t + 1 < p

\* C9 witness: a batch of nine, the smallest with a continuation section
C9_Witness ==
    /\ BatchCall
    /\ NumImages = 9
    /\ PageBreaks(story) # {}
    /\ ParagraphsAt(story, "Signal Status Summary") # {}

\* the signals of the batch, as (image, position) pairs
SignalPlaces ==
    UNION { {<<i, j>> : j \in 1..Len(BatchResults[i].signals)} : i \in 1..NumImages }

\* the metric types of the signals of the batch
SignalTypes == {BatchResults[pl[1]].signals[pl[2]].metric_type : pl \in SignalPlaces}

\* the number of signals of the batch of metric type t
SignalsOfType(t) ==
    Cardinality({pl \in SignalPlaces : BatchResults[pl[1]].signals[pl[2]].metric_type = t})

\* the block at index i is a table of one row per metric type of the batch
\* under a header row, each row holding the type and its number of signals
ListsMetricFrequency(i) ==
    /\ story[i].kind = "Table"
    /\ Len(story[i].data) = 1 + Cardinality(SignalTypes)
    /\ \A t \in SignalTypes :
         \E r \in 2..Len(story[i].data) :
            /\ \E c \in 1..Len(story[i].data[r]) : story[i].data[r][c] = t
            /\ \E c \in 1..Len(story[i].data[r]) :
                  story[i].data[r][c] = ToString(SignalsOfType(t))

\* C10: for a batch of more than eight images the signal-status section
\* holds, besides the per-status counts, a table of the number of signals
\* per metric type.  The report has no such table: the counts per metric
\* type are accumulated and dropped.
C10_MetricFrequencyShown ==
    (BatchCall /\ NumImages > 8) =>
        \E q \in ParagraphsAt(story, "Signal Status Summary") :
            \E i \in (q + 1)..Len(story) : ListsMetricFrequency(i)

\* C10, the part of the claim the report does have: the per-status table
\* of the section, its counts those of the signals of the batch
C10_StatusCountsShown ==
    (BatchCall /\ NumImages > 8) =>
        \E q \in ParagraphsAt(story, "Signal Status Summary") :
            /\ story[q + 2].kind = "Table"
            /\ Len(story[q + 2].data) = 4
            /\ \A r \in 2..4 :
                 \E st \in {"flagged", "warning", "passed"} :
                    /\ story[q + 2].data[r][1] = GetSignalStatusHtml(st)
                    /\ story[q + 2].data[r][2] =
                         ToString(Cardinality({pl \in SignalPlaces :
                            BatchResults[pl[1]].signals[pl[2]].status = st}))

\* the number of signals of the batch of status st
SignalsOfStatus(st) ==
    Cardinality({pl \in SignalPlaces : BatchResults[pl[1]].signals[pl[2]].status = st})

\* the statuses in the order of the rows of the distribution table
StatusOrder == << "flagged", "warning", "passed" >>

\* the data of the status distribution table: the table under the
\* 'Signal Status Distribution' subtitle
StatusTableData ==
    story[(CHOOSE i \in ParagraphsAt(story, "Signal Status Distribution") : TRUE) + 1].data

RECURSIVE NatOfStr(_)
\* a decimal numeral of a natural number, read back
NatOfStr(str) ==
    IF str = "" THEN 0
    ELSE 10 * NatOfStr(SubSeq(str, 1, Len(str) - 1))
           + (CHOOSE d \in 0..9 : ToString(d) = SubSeq(str, Len(str), Len(str)))

\* C11: the signal-status distribution table has one row for each of
\* flagged, warning and passed, also for a count of 0; the count of a row is
\* the number of signals of that status over all images of the batch, the
\* counts add up to the number of signals of the batch, and for a batch
\* without signals every percentage is 0 (the division is not made).
C11_StatusDistribution ==
    (BatchCall /\ NumImages > 8) =>
        /\ Cardinality(ParagraphsAt(story, "Signal Status Distribution")) = 1
        /\ Len(StatusTableData) = 1 + Len(StatusOrder)
        /\ \A r \in 1..Len(StatusOrder) :
             /\ StatusTableData[r + 1][1] = GetSignalStatusHtml(StatusOrder[r])
             /\ StatusTableData[r + 1][2] = ToString(SignalsOfStatus(StatusOrder[r]))
             /\ SignalPlaces = {} => StatusTableData[r + 1][3] = "0.0%"
        /\ SumSeq([r \in 1..Len(StatusOrder) |-> NatOfStr(StatusTableData[r + 1][2])])
             = Cardinality(SignalPlaces)

\* C11 witness: a batch of more than eight images without any signal, its
\* table holding the three rows with count 0 and percentage 0
C11_Witness ==
    /\ BatchCall
    /\ NumImages > 8
    /\ SignalPlaces = {}
    /\ Len(StatusTableData) = 4
    /\ \A r \in 2..4 : StatusTableData[r][2] = "0" /\ StatusTableData[r][3] = "0.0%"

\* C11 witness of the counts: a batch with signals, the rows holding
\* different counts of several signals each
C11_WitnessCounts ==
    /\ BatchCall
    /\ NumImages > 8
    /\ \A r \in 2..4 : NatOfStr(StatusTableData[r][2]) > 1
    /\ StatusTableData[2][2] # StatusTableData[4][2]

\* a score (in millionths) clamped into [0, 1]
Clamp(score) == IF score < 0 THEN 0 ELSE IF score > 1000000 THEN 1000000 ELSE score

\* the color that the claim's tier of a score is shown in
ColorOfTier(tier) ==
    CASE tier = "CRITICAL" -> COLOR_DANGER
      [] tier = "HIGH"     -> COLOR_WARNING
      [] tier = "MEDIUM"   -> COLOR_MEDIUM
      [] OTHER             -> COLOR_SUCCESS

\* the Overall Score cell of the overview table
ShownScoreCell ==
    story[(CHOOSE i \in ParagraphsAt(story, "Basic Information") : TRUE) + 1].data[2][4]

\* C12: the classification of the single layout is total: for every score,
\* also one outside [0, 1], the report is composed to its footer and shows
\* the tier, the next steps and the score color of the score clamped into
\* [0, 1] (LOW below 0, CRITICAL above 1); no score gives an error outcome.
C12_TotalClassification ==
    (SingleCall \/ (BatchCall /\ NumImages = 1)) =>
        LET tier == TierOfScore(Clamp(ShownResult.overall_score))
        IN  /\ ShownTier = tier
            /\ ShownNextSteps = StepsOfTier(tier)
            /\ StartsWith(ShownScoreCell, "<font color='" \o ColorOfTier(tier) \o "'>")
            /\ Blocks(story, Len(story) - Len(AddFooter) + 1, Len(story) + 1) = AddFooter

\* C12 witness: a score above 1 is shown as CRITICAL
C12_Witness ==
    SingleCall /\ args.result.overall_score > 1000000 /\ ShownTier = "CRITICAL"

\* C12 witness: a score below 0 is shown as LOW
C12_WitnessBelow ==
    SingleCall /\ args.result.overall_score < 0 /\ ShownTier = "LOW"

\* the rows under the header of the comparison table of a metric type
ComparisonData(metric_key) ==
    LET t == (CHOOSE i \in ParagraphsAt(story, MetricConfig(metric_key).title) : TRUE) + 1
    IN  Tail(story[t].data)

\* the images of the batch that have a result of the metric type, in order
ImagesWith(metric_key) ==
    SelectSeq(BatchResults, LAMBDA r : \E j \in 1..Len(r.metric_results) :
                                          r.metric_results[j].k = metric_key)

\* the detail record of an image for a metric type it has: the items of its
\* mapping, none for a record that is None or empty
DetailItems(result, metric_key) ==
    LET mr == (CHOOSE it \in {result.metric_results[j] : j \in 1..Len(result.metric_results)} :
                 it.k = metric_key).v
    IN  IF mr.details.t = "dict" THEN mr.details.items ELSE <<>>

\* whether a field of a comparison table is missing from a detail record:
\* for color the fields are those of the nested sub-records
FieldMissing(items, metric_key, key) ==
    IF metric_key = "color"
      THEN \A j \in 1..Len(items) :
              items[j].v.t = "dict" =>
                 \A m \in 1..Len(items[j].v.items) : items[j].v.items[m].k # key
      ELSE \A j \in 1..Len(items) : items[j].k # key

\* the overview matrix has one row per image, in input order, numbered from 1
OneMatrixRowPerImage ==
    /\ Len(story[MatrixTableAt].data) = 1 + NumImages
    /\ \A i \in 1..NumImages :
         /\ story[MatrixTableAt].data[i + 1][1] = ToString(i)
         /\ story[MatrixTableAt].data[i + 1][2] = BatchResults[i].filename

\* the comparison table of a metric type has the rows of the images that
\* have a result of that type, in input order, and of no other image
RowsOfImagesWith(metric_key) ==
    /\ Len(ComparisonData(metric_key)) = Len(ImagesWith(metric_key))
    /\ \A r \in 1..Len(ImagesWith(metric_key)) :
         ComparisonData(metric_key)[r][1] = ImagesWith(metric_key)[r].filename

\* the cells of the fields of cols that row r of the comparison table of a
\* metric type shows as 'N/A' when the image's record lacks the field
MissingShownNA(metric_key, cols) ==
    \A r \in 1..Len(ImagesWith(metric_key)) :
       \A c \in cols :
          FieldMissing(DetailItems(ImagesWith(metric_key)[r], metric_key), metric_key,
                       MetricConfig(metric_key).extractors[c].key)
            => ComparisonData(metric_key)[r][c + 1] = "N/A"

\* the columns of the detail fields of a comparison table
FieldColumns(metric_key) == 1..Len(MetricConfig(metric_key).extractors)

\* the column of the reason of the color table
ColorReasonColumn ==
    CHOOSE c \in FieldColumns("color") : MetricConfig("color").extractors[c].key = "reason"

\* C13 as claimed: in the matrix layout every image gets exactly one
\* overview-matrix row, in input order and numbered 1..n, also with an empty
\* signal list; an image without a result of a metric type is left out of
\* that type's comparison table only; and every field missing from a present
\* detail record is shown as 'N/A' in the image's row.
C13_GracefulMatrix ==
    (BatchCall /\ NumImages > 5) =>
        /\ OneMatrixRowPerImage
        /\ \A k \in ComparisonKeys :
             RowsOfImagesWith(k) /\ MissingShownNA(k, FieldColumns(k))

\* C13 as amended: as claimed, but for the Reason column of the color
\* table: a color record in which neither saturation_stats nor hue_stats
\* holds a reason shows an empty Reason cell, not 'N/A'.
C13_GracefulMatrixReasonEmpty ==
    (BatchCall /\ NumImages > 5) =>
        /\ OneMatrixRowPerImage
        /\ \A k \in ComparisonKeys :
             /\ RowsOfImagesWith(k)
             /\ MissingShownNA(k, FieldColumns(k) \ (IF k = "color" THEN {ColorReasonColumn} ELSE {}))
        /\ \A r \in 1..Len(ImagesWith("color")) :
             LET items == DetailItems(ImagesWith("color")[r], "color")
             IN  (\A j \in 1..Len(items) :
                     (items[j].k \in {"saturation_stats", "hue_stats"} /\ items[j].v.t = "dict")
                        => \A m \in 1..Len(items[j].v.items) : items[j].v.items[m].k # "reason")
                   => ComparisonData("color")[r][ColorReasonColumn + 1] = ""

\* C13 witness: a batch with an image without signals, an image without a
\* gradient result, an image whose gradient record lacks a field shown as
\* 'N/A', and a color record without a reason shown with an empty cell
C13_Witness ==
    /\ BatchCall
    /\ NumImages > 5
    /\ \E i \in 1..NumImages : BatchResults[i].signals = <<>>
    /\ Len(ImagesWith("gradient")) \in 1..(NumImages - 1)
    /\ \E r \in 1..Len(ImagesWith("gradient")) : ComparisonData("gradient")[r][4] = "N/A"
    /\ \E r \in 1..Len(ImagesWith("color")) :
          /\ FieldMissing(DetailItems(ImagesWith("color")[r], "color"), "color", "reason")
          /\ ComparisonData("color")[r][ColorReasonColumn + 1] = ""

\* the blocks of a story between its header and its footer
Body(s) == Blocks(s, Len(AddWatermarkedHeader("", "")) + 1, Len(s) - Len(AddFooter) + 1)

\* the section titles of the single layout, in their order
SingleSections ==
    << "Basic Information", "Detection Signals Analysis", "Detailed Forensic Analysis",
       "Recommendation" >>

\* C14: a batch of exactly one result given to export_batch yields between
\* header and footer the sequence of body sections that export_single
\* yields for that result: overview, signal table, per-metric details and
\* recommendation, block for block.
C14_SingleEquivalence ==
    (BatchCall /\ NumImages = 1) =>
        /\ Body(story) = Body(ExportSingleStory(BatchResults[1]))
        /\ \A k \in 1..Len(SingleSections) :
             Cardinality(ParagraphsAt(Body(story), SingleSections[k])) = 1
        /\ \A k \in 1..(Len(SingleSections) - 1) :
             \A i \in ParagraphsAt(Body(story), SingleSections[k]) :
                \A j \in ParagraphsAt(Body(story), SingleSections[k + 1]) : i < j

\* C14 witness: a batch of one result with signals and metric results, its
\* body that of the single layout with a per-metric section
C14_Witness ==
    /\ BatchCall
    /\ NumImages = 1
    /\ BatchResults[1].signals # <<>>
    /\ BatchResults[1].metric_results # <<>>
    /\ Body(story) = AddComprehensiveSingleImage(BatchResults[1])
    /\ Len(Body(story)) > 10

\* the row of signal j of image i in the digest: the signal table is the
\* third block after the title of the image's sub-section
DigestSignalRow(i, j) == story[MiniTitleAt(i) + 3].data[j + 1]

\* the signals of the digest, as (image, position) pairs
DigestPlaces == IF BatchCall /\ NumImages \in 2..5 THEN SignalPlaces ELSE {}

\* the name cell of every digest signal row: the first 20 characters of the
\* name, the whole name when it has no more
NamesWithinLimit ==
    \A pl \in DigestPlaces :
       LET name == BatchResults[pl[1]].signals[pl[2]].name
           cell == DigestSignalRow(pl[1], pl[2])[1]
       IN  /\ Len(cell) <= 20
           /\ StartsWith(name, cell)
           /\ Len(name) <= 20 => cell = name

\* C15 as claimed: in the digest layout every signal row shows a name of at
\* most 20 characters and an explanation of at most 60 characters, and a
\* name or explanation within the limit unchanged.
C15_DigestTruncation ==
    /\ NamesWithinLimit
    /\ \A pl \in DigestPlaces :
          LET explanation == BatchResults[pl[1]].signals[pl[2]].explanation
              cell        == DigestSignalRow(pl[1], pl[2])[4]
          IN  /\ Len(cell) <= 60
              /\ Len(explanation) <= 60 => cell = explanation

\* C15 as amended: the name is as claimed; an explanation of at most 60
\* characters is shown unchanged, and a longer one as its first 60
\* characters followed by '...', so the cell has at most 63 characters.
C15_DigestTruncationEllipsis ==
    /\ NamesWithinLimit
    /\ \A pl \in DigestPlaces :
          LET explanation == BatchResults[pl[1]].signals[pl[2]].explanation
              cell        == DigestSignalRow(pl[1], pl[2])[4]
          IN  /\ Len(cell) <= 63
              /\ Len(explanation) <= 60 => cell = explanation
              /\ Len(explanation) > 60 => cell = SubSeq(explanation, 1, 60) \o "..."

\* C15 witness: a digest with a name and an explanation over the limit, cut,
\* and a name and an explanation exactly at the limit, shown whole
C15_Witness ==
    /\ \E pl \in DigestPlaces :
          /\ Len(BatchResults[pl[1]].signals[pl[2]].explanation) > 60
          /\ Len(DigestSignalRow(pl[1], pl[2])[4]) = 63
    /\ \E pl \in DigestPlaces :
          /\ Len(BatchResults[pl[1]].signals[pl[2]].name) > 20
          /\ Len(DigestSignalRow(pl[1], pl[2])[1]) = 20
    /\ \E pl \in DigestPlaces :
          /\ Len(BatchResults[pl[1]].signals[pl[2]].name) = 20
          /\ Len(BatchResults[pl[1]].signals[pl[2]].explanation) = 60
          /\ DigestSignalRow(pl[1], pl[2])[1] = BatchResults[pl[1]].signals[pl[2]].name
          /\ DigestSignalRow(pl[1], pl[2])[4] = BatchResults[pl[1]].signals[pl[2]].explanation

\* the story shows the single layout of ShownResult
SingleShown == SingleCall \/ (BatchCall /\ NumImages = 1)

\* the five metric types in the order that the claims give their sections,
\* and the titles of their sections
FiveMetrics == << "gradient", "frequency", "noise", "texture", "color" >>
SectionTitle(k) ==
    CASE k = "gradient"  -> "Gradient-Field PCA"
      [] k = "frequency" -> "Frequency Analysis (FFT)"
      [] k = "noise"     -> "Noise Pattern Analysis"
      [] k = "texture"   -> "Texture Statistics"
      [] k = "color"     -> "Color Distribution"

\* the indices of the section titles of the metric types, and of the title
\* that ends the last section
TitleIndices ==
    UNION {ParagraphsAt(story, SectionTitle(FiveMetrics[m])) : m \in 1..Len(FiveMetrics)}
SectionBounds == TitleIndices \cup ParagraphsAt(story, "Recommendation")

\* the blocks of the section at title index a after its title, its summary
\* table and the spacer under it, up to the next section
SectionContent(a) ==
    Blocks(story, a + 3, CHOOSE b \in SectionBounds :
                            b > a /\ \A x \in SectionBounds : x > a => b <= x)

\* the metric type of the section at title index a
SectionMetric(a) ==
    CHOOSE k \in {FiveMetrics[m] : m \in 1..Len(FiveMetrics)} : story[a].text = SectionTitle(k)

\* the detail record of ShownResult for a metric type it has, as items
ShownDetails(k) ==
    LET mr == (CHOOSE it \in {ShownResult.metric_results[j] :
                                j \in 1..Len(ShownResult.metric_results)} : it.k = k).v
    IN  IF mr.details.t = "dict" THEN mr.details.items ELSE <<>>

Placeholder == "No detailed forensic data available."

\* the tables and the bullets of a section content
TablesOf(content) == {i \in 1..Len(content) : content[i].kind = "Table"}
BulletsOf(content) ==
    {i \in 1..Len(content) : content[i].kind = "Paragraph" /\ content[i].text # Placeholder}

\* C18: in the single layout, for a metric whose detail record is not
\* empty, the section holds the bullet flattening exactly when the schema
\* extraction of the record gives no row, and the detail table exactly when
\* it gives at least one; never both.
C18_TableOrBullets ==
    SingleShown =>
        \A a \in TitleIndices :
           LET k       == SectionMetric(a)
               content == SectionContent(a)
               rows    == GetMetricDetailsTable(k, ShownDetails(k)).rows
           IN  ShownDetails(k) # <<>> =>
                 /\ (BulletsOf(content) # {}) <=> (rows = <<>>)
                 /\ (TablesOf(content) # {}) <=> (rows # <<>>)
                 /\ ~(BulletsOf(content) # {} /\ TablesOf(content) # {})
                 /\ rows # <<>> =>
                      /\ Cardinality(TablesOf(content)) = 1
                      /\ \A i \in TablesOf(content) : Tail(content[i].data) = rows
                 /\ rows = <<>> =>
                      [i \in 1..Cardinality(BulletsOf(content)) |-> content[i].text]
                         = FormatDetailsAsBullets(ShownDetails(k), 0)

\* C18 witness: a result with a section of bullets (a record that matches
\* no schema field) next to a section with a detail table
C18_Witness ==
    /\ SingleCall
    /\ \E a \in TitleIndices :
          /\ ShownDetails(SectionMetric(a)) # <<>>
          /\ BulletsOf(SectionContent(a)) # {}
    /\ \E a \in TitleIndices : TablesOf(SectionContent(a)) # {}

\* C19: in the single layout every metric section holds, after its summary
\* row, exactly one of: a detail table with at least one data row, a list of
\* at least one bullet, or the 'no detailed data' placeholder; never an
\* empty table and never nothing.
C19_SectionNeverEmpty ==
    SingleShown =>
        \A a \in TitleIndices :
           LET content == SectionContent(a)
               shown   == {i \in 1..Len(content) : content[i].kind # "Spacer"}
               holder  == {i \in shown : content[i].kind = "Paragraph"
                                           /\ content[i].text = Placeholder}
           IN  /\ story[a + 1].kind = "Table"
               /\ shown # {}
               /\ \/ /\ Cardinality(shown) = 1
                     /\ shown = TablesOf(content)
                     /\ \A i \in shown : Len(content[i].data) >= 2
                  \/ /\ shown = BulletsOf(content)
                     /\ \A i \in shown : content[i].text # ""
                  \/ /\ Cardinality(shown) = 1
                     /\ shown = holder

\* C19 witness: a result with a section that shows the placeholder (an
\* empty record) and a section of bullets
C19_Witness ==
    /\ SingleCall
    /\ \E a \in TitleIndices :
          \E i \in 1..Len(SectionContent(a)) : SectionContent(a)[i].text = Placeholder
    /\ \E a \in TitleIndices : BulletsOf(SectionContent(a)) # {}

\* whether the metric mapping of ShownResult has the key
InMapping(k) ==
    \E j \in 1..Len(ShownResult.metric_results) : ShownResult.metric_results[j].k = k

\* the section titles of the story, in the order of their indices
ShownTitles ==
    [n \in 1..Cardinality(TitleIndices) |->
       story[CHOOSE i \in TitleIndices : Cardinality({j \in TitleIndices : j < i}) = n - 1].text]

\* C20: in the single layout the metric sections are those of the metric
\* types among gradient, frequency, noise, texture, color that the metric
\* mapping holds, one section each, in that fixed order whatever the order
\* of the keys of the mapping; a missing type has no section, and a key
\* outside the five has none.
C20_FixedOrder ==
    SingleShown =>
        LET present == SelectSeq(FiveMetrics, InMapping)
        IN  /\ ShownTitles = [n \in 1..Len(present) |-> SectionTitle(present[n])]
            /\ \A j \in 1..Len(ShownResult.metric_results) :
                 LET k == ShownResult.metric_results[j].k
                 IN  k \notin {FiveMetrics[m] : m \in 1..Len(FiveMetrics)}
                       => ParagraphsAt(story, k) = {}

\* C20 witness: a mapping that holds color before gradient is shown with
\* the gradient section before the color section
C20_Witness ==
    /\ SingleCall
    /\ Len(ShownResult.metric_results) >= 2
    /\ ShownResult.metric_results[1].k = "color"
    /\ ShownResult.metric_results[2].k = "gradient"
    /\ ShownTitles = << "Gradient-Field PCA", "Color Distribution" >>

\* C20 witness: a mapping with a key outside the five, which has no section
C20_WitnessUnknownKey ==
    /\ SingleCall
    /\ InMapping("custom")
    /\ Cardinality(TitleIndices) = Len(ShownResult.metric_results) - 1

\* the results of the call's argument as the call found them, and as it
\* left them
ResultsBefore == IF op = "export_single" THEN << args.result >> ELSE args.batch_result.results
ResultsAfter  == IF op = "export_single" THEN << input >> ELSE input.results

---------------------------------------------------------------------------
(* The frame of the story: header, footer, page breaks *)

Returned == pc = "returned" /\ op \in {"export_single", "export_batch"}

\* the title and the timestamp of the report of the call
ReportTitle ==
    IF op = "export_single" THEN "Single Image Analysis Report" ELSE BatchTitle(NumImages)
ReportTimestamp ==
    IF op = "export_single" THEN args.result.timestamp ELSE args.batch_result.timestamp

\* the places where a block sequence p lies in s
PlacesOf(s, p) == {i \in 1..(Len(s) - Len(p) + 1) : SubSeq(s, i, i + Len(p) - 1) = p}

\* the places of the headers of the story, and of the headers of
\* continuation pages among them
HeaderPlaces ==
    PlacesOf(story, AddWatermarkedHeader(ReportTitle, ReportTimestamp))
      \cup PlacesOf(story, AddWatermarkedHeader(ReportTitle \o " - Continued", ReportTimestamp))
ContinuedPlaces ==
    PlacesOf(story, AddWatermarkedHeader(ReportTitle \o " - Continued", ReportTimestamp))

\* C24: on every layout path and for every number of images the story
\* starts with the report header and ends with the footer, which it holds
\* exactly once; it holds at most one page break, every page break is
\* immediately followed by the header of a continuation page, and the
\* headers are one more than the page breaks.
C24_StoryFrame ==
    Returned =>
       /\ StartsWith(story, AddWatermarkedHeader(ReportTitle, ReportTimestamp))
       /\ PlacesOf(story, AddFooter) = {Len(story) - Len(AddFooter) + 1}
       /\ Cardinality(PageBreaks(story)) <= 1
       /\ \A i \in PageBreaks(story) : i + 1 \in ContinuedPlaces
       /\ Cardinality(HeaderPlaces) = Cardinality(PageBreaks(story)) + 1
       /\ Cardinality(ParagraphsAt(story, "AI Image Screener")) = Cardinality(HeaderPlaces)

\* C24 witness: a matrix story with a page break and two headers
C24_Witness ==
    /\ BatchCall
    /\ NumImages > ContinuationAbove
    /\ Cardinality(PageBreaks(story)) = 1
    /\ Cardinality(HeaderPlaces) = 2

\* C24 witness: a digest story with a page break between two images
C24_WitnessDigest ==
    /\ BatchCall
    /\ NumImages <= DigestMax
    /\ PageBreaks(story) # {}
    /\ \A i \in PageBreaks(story) : i + 1 \in ContinuedPlaces

\* C24 witness: stories of one header and no page break, on each path
C24_WitnessNoBreak ==
    /\ SingleCall
    /\ PageBreaks(story) = {}
    /\ Cardinality(HeaderPlaces) = 1

---------------------------------------------------------------------------
(* The confidence of a metric result, as the layouts show it *)

\* the cell that shows a confidence: 'N/A' for an absent one, else the
\* number to 3 decimals
ConfidenceCell(metric_result) ==
    IF metric_result.confidence = <<>> THEN "N/A" ELSE Fmt3(metric_result.confidence[1])

MatrixShown == BatchCall /\ SelectLayout(NumImages) = "matrix"

\* the signal table of the single layout
SignalTableAt == (CHOOSE i \in ParagraphsAt(story, "Detection Signals Analysis") : TRUE) + 1

\* the single layout shows the confidence of a metric result in the row of
\* each signal of its type and in the summary row of its section
SingleConfidenceShown ==
    SingleShown =>
       /\ \A a \in TitleIndices :
            story[a + 1].data[1][4] =
               ConfidenceCell(Lookup(ShownResult.metric_results, SectionMetric(a)))
       /\ \A j \in 1..Len(ShownResult.signals) :
            HasKey(ShownResult.metric_results, ShownResult.signals[j].metric_type) =>
               story[SignalTableAt].data[j + 1][4] =
                  ConfidenceCell(Lookup(ShownResult.metric_results,
                                        ShownResult.signals[j].metric_type))

\* the matrix layout shows the confidence of a metric result in the last
\* cell of the image's row of the comparison table of its type
MatrixConfidenceShown ==
    MatrixShown =>
       \A k \in ComparisonKeys :
          \A r \in 1..Len(ImagesWith(k)) :
             ComparisonData(k)[r][Len(ComparisonData(k)[r])] =
                ConfidenceCell(Lookup(ImagesWith(k)[r].metric_results, k))

\* C25: the confidence of a metric result is shown as 'N/A' exactly when it
\* is absent; a confidence of 0 is shown as a number in the signal table and
\* the summary row of the single layout and in the comparison tables of the
\* matrix layout alike.
C25_ConfidenceShown == SingleConfidenceShown /\ MatrixConfidenceShown

\* the part of C25 that the single layout keeps
C25_SingleLayoutShown == SingleConfidenceShown

\* a single report with a metric result of confidence 0, shown as 0.000
C25_SingleZeroShown ==
    /\ SingleShown
    /\ \E a \in TitleIndices :
          /\ Lookup(ShownResult.metric_results, SectionMetric(a)).confidence = << 0 >>
          /\ story[a + 1].data[1][4] = "0.000"

\* a comparison row of a metric result of confidence 0, shown as 'N/A'
C25_MatrixZeroShownNA ==
    /\ MatrixShown
    /\ \E k \in ComparisonKeys :
          \E r \in 1..Len(ImagesWith(k)) :
             /\ Lookup(ImagesWith(k)[r].metric_results, k).confidence = << 0 >>
             /\ ComparisonData(k)[r][Len(ComparisonData(k)[r])] = "N/A"

---------------------------------------------------------------------------
(* The batch of no image *)

EmptyBatch == BatchCall /\ NumImages = 0

\* the kinds of the blocks of a story
Kinds(s) == [i \in 1..Len(s) |-> s[i].kind]

\* the tables of a story
TablesAt(s) == {i \in 1..Len(s) : s[i].kind = "Table"}

\* C26: export_batch on a batch of no result takes the matrix branch, not
\* the single-image one, and reads no element of the empty result list: its
\* story is the header, the overview matrix and the five comparison tables,
\* each with its header row alone, no page break, and the footer.
C26_EmptyBatchMatrix ==
    EmptyBatch =>
       /\ SelectLayout(NumImages) = "matrix"
       /\ ParagraphsAt(story, "Basic Information") = {}
       /\ StartsWith(story, AddWatermarkedHeader(BatchTitle(0), args.batch_result.timestamp))
       /\ Blocks(story, Len(story) - Len(AddFooter) + 1, Len(story) + 1) = AddFooter
       /\ PageBreaks(story) = {}
       /\ Kinds(Body(story)) =
            << "Paragraph", "Table", "Spacer" >>
              \o Flatten([k \in 1..Len(MetricConfigKeys) |-> << "Spacer", "Paragraph", "Table" >>])
       /\ Body(story)[1].text = "Batch Overview Matrix"
       /\ Body(story)[2].data = << HeaderRow(MatrixHeaders) >>
       /\ \A k \in 1..Len(MetricConfigKeys) :
            /\ Body(story)[3 * k + 2].text = MetricConfig(MetricConfigKeys[k]).title
            /\ Body(story)[3 * k + 3].data = << HeaderRow(MetricConfig(MetricConfigKeys[k]).headers) >>
       /\ \A t \in TablesAt(Body(story)) : Len(Body(story)[t].data) = 1

\* C26 witness: the story of a batch of no result, with its six tables
C26_Witness ==
    /\ EmptyBatch
    /\ args.batch_result.results = <<>>
    /\ Cardinality(TablesAt(Body(story))) = Len(MetricConfigKeys) + 1
    /\ ParagraphsAt(story, "Batch Overview Matrix") # {}

---------------------------------------------------------------------------
(* Properties of the extraction.  They read the arguments of the helper    *)
(* call and the value it returned.                                         *)

TableCall   == pc = "returned" /\ op = "_get_metric_details_table"
BulletsCall == pc = "returned" /\ op = "_format_details_as_bullets"
ColorCall   == pc = "returned" /\ op = "_extract_color_detail"

\* the schema of the metric type of the call
CallParams == MetricParameters(args.metric_key)

\* whether the record of the call holds schema field p, and as a mapping
FieldPresent(p) == HasKey(args.details, p.key)
FieldNested(p)  == FieldPresent(p) /\ IsDict(Lookup(args.details, p.key))

\* C4 as claimed: for every registered metric type and every detail record,
\* _get_metric_details_table returns at most as many rows as the schema of
\* the metric type has fields.
C4_RowsWithinSchema ==
    (TableCall /\ IsRegistered(args.metric_key)) =>
        Len(ret.rows) <= Len(CallParams)

\* C4 as amended: for every registered metric type and every detail record,
\* the number of rows is at most the number of schema fields when a field
\* whose value in the record is a nested mapping is counted once per key of
\* that mapping; so it is at most the number of schema fields when no
\* schema field of the record holds a nested mapping.
C4_RowsWithinExpandedSchema ==
    (TableCall /\ IsRegistered(args.metric_key)) =>
        /\ Len(ret.rows) <=
             SumSeq([i \in 1..Len(CallParams) |->
                       IF FieldNested(CallParams[i])
                         THEN Len(Lookup(args.details, CallParams[i].key).items)
                         ELSE 1])
        /\ (\A i \in 1..Len(CallParams) : ~FieldNested(CallParams[i]))
             => Len(ret.rows) <= Len(CallParams)

\* C4 witness: nested mappings give more rows than the schema has fields
C4_Witness ==
    /\ TableCall
    /\ IsRegistered(args.metric_key)
    /\ \E i \in 1..Len(CallParams) : FieldNested(CallParams[i])
    /\ Len(ret.rows) > Len(CallParams)

\* the schema fields that a row can come from: a present scalar field shown
\* with its label, value and description, or a present nested mapping with
\* the row's key and value
RowOrigins(row) ==
    {i \in 1..Len(CallParams) :
       /\ FieldPresent(CallParams[i])
       /\ LET value == Lookup(args.details, CallParams[i].key)
          IN  IF IsDict(value)
                THEN \E j \in 1..Len(value.items) :
                       row = << "  " \o value.items[j].k, Str(value.items[j].v), "" >>
                ELSE row = << CallParams[i].label, Str(value), CallParams[i].desc >>}

RECURSIVE InSchemaOrder(_, _)
\* whether the rows can be given origins that never go back in the schema,
\* none before field from: each row takes its first origin that is allowed
InSchemaOrder(rows, from) ==
    IF rows = <<>> THEN TRUE
    ELSE LET allowed == {i \in RowOrigins(Head(rows)) : i >= from}
         IN  /\ allowed # {}
             /\ InSchemaOrder(Tail(rows), CHOOSE i \in allowed : \A j \in allowed : i <= j)

\* C5: for every registered metric type and every detail record, each row of
\* _get_metric_details_table comes from a schema field that the record
\* holds (a missing field gives no row and no placeholder), the rows are at
\* most the present scalar fields plus the keys of the present nested
\* mappings, and the rows follow the order of the schema.
C5_RowsFromPresentFields ==
    (TableCall /\ IsRegistered(args.metric_key)) =>
        /\ \A r \in 1..Len(ret.rows) : RowOrigins(ret.rows[r]) # {}
        /\ Len(ret.rows) <=
             SumSeq([i \in 1..Len(CallParams) |->
                       IF FieldNested(CallParams[i])
                         THEN Len(Lookup(args.details, CallParams[i].key).items)
                       ELSE IF FieldPresent(CallParams[i]) THEN 1
                       ELSE 0])
        /\ InSchemaOrder(ret.rows, 1)

\* C5 witness: a record with a scalar field and a nested mapping of the
\* schema, in the reverse of the schema's order, and a schema field missing
C5_Witness ==
    /\ TableCall
    /\ IsRegistered(args.metric_key)
    /\ Len(args.details) = 2
    /\ \E i, j \in 1..Len(CallParams) :
         /\ i < j
         /\ args.details[1].k = CallParams[j].key /\ ~IsDict(args.details[1].v)
         /\ args.details[2].k = CallParams[i].key /\ IsDict(args.details[2].v)
    /\ \E i \in 1..Len(CallParams) : ~FieldPresent(CallParams[i])
    /\ Len(ret.rows) >= 3

\* C6: _format_details_as_bullets returns no bullet only for an empty
\* record; for any other record, whatever its nesting, it returns a bullet
\* for every top-level key, so at least as many bullets as top-level keys.
C6_BulletsPerKey ==
    BulletsCall =>
        /\ (ret = <<>>) => (args.details = <<>>)
        /\ Len(ret) >= Len(args.details)
        /\ \A i \in 1..Len(args.details) :
             \E j \in 1..Len(ret) : StartsWith(ret[j], "* " \o args.details[i].k \o ":")

\* C6 witness: a record of an empty mapping and a mapping nested twice
C6_Witness ==
    /\ BulletsCall
    /\ Len(args.details) = 2
    /\ args.details[1].v = VDict(<<>>)
    /\ args.details[2].v = SubRecDeep
    /\ Len(ret) > Len(args.details)

\* the sub-records of a color record, in the order of their priority
SubRecordOrder == <<"saturation_stats", "histogram_stats", "hue_stats">>

\* whether sub-record i of the record of the call is a mapping with the key
Holds(i, key) ==
    /\ HasKey(args.details, SubRecordOrder[i])
    /\ IsDict(Lookup(args.details, SubRecordOrder[i]))
    /\ HasKey(Lookup(args.details, SubRecordOrder[i]).items, key)

\* the value of the key in sub-record i
Held(i, key) == Lookup(Lookup(args.details, SubRecordOrder[i]).items, key)

\* C7: _extract_color_detail returns the value of the key in the first of
\* saturation_stats, histogram_stats, hue_stats that is a mapping with the
\* key, and 'N/A' when none is; so a key held only by histogram_stats gives
\* the value of histogram_stats.
C7_ColorPriority ==
    ColorCall =>
        LET holders == {i \in 1..Len(SubRecordOrder) : Holds(i, args.key)}
        IN  IF holders = {} THEN ret = VStr("N/A")
            ELSE ret = Held(CHOOSE i \in holders : \A j \in holders : i <= j, args.key)

\* C7 witness: the key is in histogram_stats and, with another value, in
\* hue_stats, and not in saturation_stats
C7_Witness ==
    /\ ColorCall
    /\ ~Holds(1, args.key) /\ Holds(2, args.key) /\ Holds(3, args.key)
    /\ Held(2, args.key) # Held(3, args.key)
    /\ ret = Held(2, args.key)

\* the schema fields of the call that the record holds as nested mappings
NestedFields == {i \in 1..Len(CallParams) : FieldNested(CallParams[i])}

\* the items of the nested mapping of schema field i
NestedItems(i) == Lookup(args.details, CallParams[i].key).items

\* the positions of the items of schema field i that the claim as amended
\* gives a row: all but a 'reason' whose value is falsy ('' or None or 0)
KeptItems(i) ==
    {j \in 1..Len(NestedItems(i)) :
       NestedItems(i)[j].k # "reason" \/ Truthy(NestedItems(i)[j].v)}

\* the rows of the result without a description
RowsWithoutDescription == {r \in 1..Len(ret.rows) : ret.rows[r][3] = ""}

\* no row shows the nested mapping of schema field i as a whole
NoBlobRow(i) ==
    \A r \in 1..Len(ret.rows) :
       /\ ret.rows[r][1] # CallParams[i].label
       /\ ret.rows[r][2] # Str(Lookup(args.details, CallParams[i].key))

\* C16 as claimed: a schema field that the record holds as a nested mapping
\* gives exactly one row per key of the mapping, with the indented key, the
\* value as a string and an empty description, and never a single row for
\* the whole mapping.
C16_NestedExpansion ==
    (TableCall /\ IsRegistered(args.metric_key)) =>
        /\ \A i \in NestedFields :
             /\ NoBlobRow(i)
             /\ \A j \in 1..Len(NestedItems(i)) :
                  \E r \in RowsWithoutDescription :
                     ret.rows[r] = << "  " \o NestedItems(i)[j].k, Str(NestedItems(i)[j].v), "" >>
        /\ Cardinality(RowsWithoutDescription)
             = SumSeq([i \in 1..Len(CallParams) |->
                         IF i \in NestedFields THEN Len(NestedItems(i)) ELSE 0])

\* C16 as amended: as claimed, but a key 'reason' of the nested mapping
\* whose value is falsy (an empty string) gives no row; every other key
\* gives exactly one.
C16_NestedExpansionButEmptyReason ==
    (TableCall /\ IsRegistered(args.metric_key)) =>
        /\ \A i \in NestedFields :
             /\ NoBlobRow(i)
             /\ \A j \in KeptItems(i) :
                  \E r \in RowsWithoutDescription :
                     ret.rows[r] = << "  " \o NestedItems(i)[j].k, Str(NestedItems(i)[j].v), "" >>
        /\ Cardinality(RowsWithoutDescription)
             = SumSeq([i \in 1..Len(CallParams) |->
                         IF i \in NestedFields THEN Cardinality(KeptItems(i)) ELSE 0])

\* C16 witness: a nested mapping of two keys, one of them an empty
\* 'reason', gives the one row of the other key
C16_Witness ==
    /\ TableCall
    /\ IsRegistered(args.metric_key)
    /\ \E i \in NestedFields :
         /\ Len(NestedItems(i)) = 2
         /\ Cardinality(KeptItems(i)) = 1
    /\ Len(ret.rows) = 1
    /\ ret.rows[1][3] = ""

\* C16 witness: a nested mapping of three keys with a 'reason' that is not
\* empty gives three rows
C16_WitnessAllKeys ==
    /\ TableCall
    /\ IsRegistered(args.metric_key)
    /\ \E i \in NestedFields :
         /\ Len(NestedItems(i)) = 3
         /\ \E j \in KeptItems(i) : NestedItems(i)[j].k = "reason"
    /\ Cardinality(RowsWithoutDescription) = 3

ReasonCall == pc = "returned" /\ op = "_extract_color_reason"

\* C17: _extract_color_reason returns the reason of saturation_stats when
\* saturation_stats is a mapping that holds one, else the reason of
\* hue_stats when hue_stats is a mapping that holds one, else the empty
\* string; the reason of histogram_stats is never returned.
C17_ReasonPriority ==
    ReasonCall =>
        ret = IF Holds(1, "reason") THEN Held(1, "reason")
              ELSE IF Holds(3, "reason") THEN Held(3, "reason")
              ELSE VStr("")

\* C17 witness: a reason held by histogram_stats only gives the empty string
C17_Witness ==
    /\ ReasonCall
    /\ ~Holds(1, "reason") /\ Holds(2, "reason") /\ ~Holds(3, "reason")
    /\ Held(2, "reason") # VStr("")
    /\ ret = VStr("")

\* C17 witness: saturation_stats and hue_stats hold different reasons, and
\* hue_stats comes first in the record; the reason of saturation_stats is
\* returned
C17_WitnessPriority ==
    /\ ReasonCall
    /\ Holds(1, "reason") /\ Holds(3, "reason")
    /\ Held(1, "reason") # Held(3, "reason")
    /\ args.details[1].k = "hue_stats"
    /\ ret = Held(1, "reason")

\* the schema fields of the call that the record holds as scalars
ScalarFields ==
    {i \in 1..Len(CallParams) : FieldPresent(CallParams[i]) /\ ~FieldNested(CallParams[i])}

\* the value of schema field i in the record of the call
FieldValue(i) == Lookup(args.details, CallParams[i].key)

\* C21: the row of a schema field held as a scalar shows a float with 3
\* decimal places and any other scalar in its natural string form, as the
\* matrix cells and the bullets do.  The row shows str(value) for a float
\* too: 0.123456 is shown as '0.123456', not as '0.123'.
C21_FloatThreeDecimals ==
    (TableCall /\ IsRegistered(args.metric_key)) =>
        \A i \in ScalarFields :
           \E r \in 1..Len(ret.rows) :
              ret.rows[r] = << CallParams[i].label,
                               IF FieldValue(i).t = "float"
                                 THEN Fmt3(FieldValue(i).n) ELSE Str(FieldValue(i)),
                               CallParams[i].desc >>

\* C21, what the rows do show: the natural string form of every scalar, a
\* float included
C21_ScalarAsStr ==
    (TableCall /\ IsRegistered(args.metric_key)) =>
        \A i \in ScalarFields :
           \E r \in 1..Len(ret.rows) :
              ret.rows[r] = << CallParams[i].label, Str(FieldValue(i)), CallParams[i].desc >>

\* C21: a call whose record holds a float of more than 3 decimals under a
\* schema field, shown with all its decimals
C21_FloatShownInFull ==
    /\ TableCall
    /\ IsRegistered(args.metric_key)
    /\ \E i \in ScalarFields :
          /\ FieldValue(i).t = "float"
          /\ Fmt3(FieldValue(i).n) # Str(FieldValue(i))
          /\ \E r \in 1..Len(ret.rows) : ret.rows[r][2] = Str(FieldValue(i))

---------------------------------------------------------------------------
(* Properties of compositions that share a reporter *)

\* the story of a call that runs alone
RunAlone(call) ==
    IF call.op = "export_single" THEN ExportSingleStory(call.arg)
    ELSE ExportBatchStory(call.arg)

\* the calls in progress and the calls whose story has been built
InProgress(t) == thread[t].at >= 1
Built(t)      == InProgress(t) /\ thread[t].built # <<>>

\* C23: compositions on one PDFReporter share no mutable state: whatever
\* the interleaving of two calls, and in either order, the story that a
\* call hands to doc.build is the story it builds when it runs alone, and
\* while it composes its story is a prefix of that one.
C23_NoSharedState ==
    \A t \in Threads :
       /\ Built(t) => thread[t].built = RunAlone(thread[t].call)
       /\ (InProgress(t) /\ ~Built(t)) =>
             /\ Len(frames[t]) <= Len(RunAlone(thread[t].call))
             /\ frames[t] = SubSeq(RunAlone(thread[t].call), 1, Len(frames[t]))
             /\ thread[t].at > 1 => frames[t] # <<>>

\* C23 witness: both threads are past their header and before their footer,
\* with different calls, and one of them is then built
C23_Witness ==
    /\ thread[1].at = 3
    /\ thread[2].at = 3
    /\ thread[1].call.op = "export_batch"
    /\ thread[2].call.op = "export_single"
    /\ frames[1] # frames[2]
    /\ frames[1] # <<>> /\ frames[2] # <<>>

\* C23 witness: two calls built from interleaved compositions, each as alone
C23_WitnessBuilt ==
    /\ Built(1) /\ Built(2)
    /\ thread[1].call # thread[2].call
    /\ thread[1].built = RunAlone(thread[1].call)
    /\ thread[2].built = RunAlone(thread[2].call)

=========================================================================
